---- MODULE Spec2Model ----
(***************************************************************************)
(* International checkers (akockx/checkers): the rules engine              *)
(* (checkers/model/rules.py), the game state (checkers/model/state.py),    *)
(* the Monte-Carlo solver (checkers/ai/solver.py) and the AI move selector *)
(* (checkers/game/move_selector_types.py).                                 *)
(***************************************************************************)
EXTENDS Integers, Sequences, FiniteSets, TLC

(***************************************************************************)
(* Bounds of the model.  The program plays on BOARD_SHAPE = (10, 10); the  *)
(* model plays on a smaller board of a shape CheckersState accepts.        *)
(***************************************************************************)
ROW_COUNT == 3

COLUMN_COUNT == 5

MaxPly == 13

MaxPieces == 4

\* The number of calls of AICheckersMoveSelector.start
MaxSearches == 2

\* playout_count_per_move of the AI move selector
PlayoutCount == 1

\* solver.py: MAX_RECURSION_DEPTH = 200, the number of plies a playout may add
MAX_RECURSION_DEPTH == 2

\* The number of plies played before pure_monte_carlo_game_search is called directly
SolverPly == 6

\* The highest total_ply_count of the results that are scored: above the 200 plies
\* at which min(0.001 * total_ply_count, 0.2) reaches its cap
MaxTotalPly == 202

(***************************************************************************)
(* checkers/model/util.py                                                  *)
(***************************************************************************)
\* The arguments of CheckersState(row_count, column_count): the shape of the board
VARIABLES
    shape

\* CheckersBoard.row_count
RowCount == shape[1]

\* CheckersBoard.column_count
ColumnCount == shape[2]

LIGHT == "LIGHT"

DARK == "DARK"

CheckersPlayer == {LIGHT, DARK}

PlayerValue(player) == IF player = LIGHT THEN 0 ELSE 1

PlayerOfValue(value) == IF value = 0 THEN LIGHT ELSE DARK

\* Mutant of CheckersPlayer_next: the turn stays with the same player
CheckersPlayer_next_same(player) == player

\* CheckersPlayer.next: CheckersPlayer((self.value + 1) % len(CheckersPlayer))
CheckersPlayer_next(player) == PlayerOfValue((PlayerValue(player) + 1) % Cardinality(CheckersPlayer))

MAN == "MAN"

KING == "KING"

CheckersPieceType == {MAN, KING}

CheckersPiece(owner, type) == [owner |-> owner, type |-> type]

Pieces == {CheckersPiece(o, t) : o \in CheckersPlayer, t \in CheckersPieceType}

\* EMPTY: Final[None] = None, the content of a square without a piece.
EMPTY == [owner |-> "None", type |-> "None"]

\* sign(value)
sign(value) == IF value > 0 THEN 1 ELSE IF value < 0 THEN -1 ELSE 0

\* Index2D: (x, y) = (column index, row index)
Index2D(x, y) == <<x, y>>

Index2D_add(a, b) == <<a[1] + b[1], a[2] + b[2]>>

Index2D_sub(a, b) == <<a[1] - b[1], a[2] - b[2]>>

Index2D_sign(a) == <<sign(a[1]), sign(a[2])>>

Squares == (0 .. ColumnCount - 1) \X (0 .. RowCount - 1)

\* CheckersBoard.__init__: an empty board, _list_2d[x][y] = None
EmptyBoard == [sq \in Squares |-> EMPTY]

\* CheckersBoard.__contains__
InBoard(index) ==
    /\ 0 <= index[1] /\ index[1] < ColumnCount
    /\ 0 <= index[2] /\ index[2] < RowCount

\* CheckersBoard.__iter__ visits the squares column by column, rows ascending.
SquareAt(i) == <<(i - 1) \div RowCount, (i - 1) % RowCount>>

SquareCount == ColumnCount * RowCount

Range(seq) == {seq[i] : i \in 1 .. Len(seq)}

Last(seq) == seq[Len(seq)]

\* The element of a set of one element: in TheOne({F(v) : v \in {e}}) the expression
\* e is evaluated once, however often F uses its argument
TheOne(S) == CHOOSE element \in S : TRUE

\* CheckersJump
CheckersJump(destination, captured_square) ==
    [destination |-> destination, captured_square |-> captured_square]

\* captured_square: Index2D | None = None
NoSquare == <<-1, -1>>

(***************************************************************************)
(* checkers/model/rules.py                                                 *)
(***************************************************************************)
DIAGONAL_DIRECTIONS == << <<-1, 1>>, <<1, 1>>, <<1, -1>>, <<-1, -1>> >>

LIGHT_PLAYER_FORWARD_DIRECTIONS == << <<-1, 1>>, <<1, 1>> >>

DARK_PLAYER_FORWARD_DIRECTIONS == << <<1, -1>>, <<-1, -1>> >>

\* Mutant of get_forward_directions: each player gets the directions of the other
get_forward_directions_swapped(player) ==
    IF player = LIGHT THEN DARK_PLAYER_FORWARD_DIRECTIONS
    ELSE LIGHT_PLAYER_FORWARD_DIRECTIONS

get_forward_directions(player) ==
    IF player = LIGHT THEN LIGHT_PLAYER_FORWARD_DIRECTIONS
    ELSE DARK_PLAYER_FORWARD_DIRECTIONS

\* Mutant of get_kings_row_index: the near edge instead of the far edge
get_kings_row_index_near(player) ==
    IF player = LIGHT THEN 0 ELSE RowCount - 1

get_kings_row_index(player) ==
    IF player = LIGHT THEN RowCount - 1 ELSE 0

\* Mutant of ManJumps: a Man jumps forward only
ManJumps_forward_only(piece, origin, delta, captured_squares, board) ==
    LET captured_square == Index2D_add(origin, delta)
        destination == Index2D_add(captured_square, delta)
    IN  IF delta[2] # (IF piece.owner = LIGHT THEN 1 ELSE -1) THEN <<>>
        ELSE IF ~InBoard(captured_square) THEN <<>>
        ELSE IF board[captured_square] = EMPTY
                \/ board[captured_square].owner = piece.owner THEN <<>>
        ELSE IF ~InBoard(destination) \/ board[destination] # EMPTY THEN <<>>
        ELSE IF captured_square \in Range(captured_squares) THEN <<>>
        ELSE <<CheckersJump(destination, captured_square)>>

\* Mutant of ManJumps: the first piece captured in a chain may be captured once more
ManJumps_recaptures_once(piece, origin, delta, captured_squares, board) ==
    LET captured_square == Index2D_add(origin, delta)
        destination == Index2D_add(captured_square, delta)
    IN  IF ~InBoard(captured_square) THEN <<>>
        ELSE IF board[captured_square] = EMPTY
                \/ board[captured_square].owner = piece.owner THEN <<>>
        ELSE IF ~InBoard(destination) \/ board[destination] # EMPTY THEN <<>>
        ELSE IF Len(captured_squares) >= 2 /\ captured_square \in Range(captured_squares)
        THEN <<>>
        ELSE <<CheckersJump(destination, captured_square)>>

\* add_legal_jumps, case MAN, one direction
ManJumps(piece, origin, delta, captured_squares, board) ==
    LET captured_square == Index2D_add(origin, delta)
        destination == Index2D_add(captured_square, delta)
    IN  IF ~InBoard(captured_square) THEN <<>>
        ELSE IF board[captured_square] = EMPTY
                \/ board[captured_square].owner = piece.owner THEN <<>>
        ELSE IF ~InBoard(destination) \/ board[destination] # EMPTY THEN <<>>
        ELSE IF captured_square \in Range(captured_squares) THEN <<>>
        ELSE <<CheckersJump(destination, captured_square)>>

\* add_legal_jumps, case KING: search for the nearest piece in a direction
RECURSIVE NearestPiece(_, _, _)
NearestPiece(square, delta, board) ==
    IF ~InBoard(square) THEN NoSquare
    ELSE IF board[square] # EMPTY THEN square
    ELSE NearestPiece(Index2D_add(square, delta), delta, board)

\* add_legal_jumps, case KING: one jump per free square behind the captured piece
RECURSIVE KingLandings(_, _, _, _)
KingLandings(destination, delta, captured_square, board) ==
    IF ~InBoard(destination) THEN <<>>
    ELSE IF board[destination] # EMPTY THEN <<>>
    ELSE <<CheckersJump(destination, captured_square)>>
         \o KingLandings(Index2D_add(destination, delta), delta, captured_square, board)

\* Mutant of KingJumps: a King lands only on the square next to the captured piece
KingJumps_lands_next(piece, origin, delta, captured_squares, board) ==
    LET captured_square == NearestPiece(Index2D_add(origin, delta), delta, board)
    IN  IF captured_square = NoSquare THEN <<>>
        ELSE IF board[captured_square].owner = piece.owner THEN <<>>
        ELSE IF captured_square \in Range(captured_squares) THEN <<>>
        ELSE ManJumps(piece, Index2D_sub(captured_square, delta), delta, captured_squares,
                      board)

\* add_legal_jumps, case KING, one direction
KingJumps(piece, origin, delta, captured_squares, board) ==
    LET captured_square == NearestPiece(Index2D_add(origin, delta), delta, board)
    IN  IF captured_square = NoSquare THEN <<>>
        ELSE IF board[captured_square].owner = piece.owner THEN <<>>
        ELSE IF captured_square \in Range(captured_squares) THEN <<>>
        ELSE KingLandings(Index2D_add(captured_square, delta), delta, captured_square, board)

DirectionJumps(piece, origin, delta, captured_squares, board) ==
    IF piece.type = MAN
    THEN ManJumps(piece, origin, delta, captured_squares, board)
    ELSE KingJumps(piece, origin, delta, captured_squares, board)

\* add_legal_jumps: the jumps of piece from origin, in the order of DIAGONAL_DIRECTIONS
add_legal_jumps(piece, origin, captured_squares, board) ==
    DirectionJumps(piece, origin, DIAGONAL_DIRECTIONS[1], captured_squares, board)
    \o DirectionJumps(piece, origin, DIAGONAL_DIRECTIONS[2], captured_squares, board)
    \o DirectionJumps(piece, origin, DIAGONAL_DIRECTIONS[3], captured_squares, board)
    \o DirectionJumps(piece, origin, DIAGONAL_DIRECTIONS[4], captured_squares, board)

\* add_legal_capturing_moves: the moves it appends to the list of moves
RECURSIVE add_legal_capturing_moves(_, _, _, _)
RECURSIVE CapturingMovesOfJumps(_, _, _, _, _, _)
CapturingMovesOfJumps(jumps, j, piece, visited_squares, captured_squares, board) ==
    IF j > Len(jumps) THEN <<>>
    ELSE add_legal_capturing_moves(piece,
                                   Append(visited_squares, jumps[j].destination),
                                   Append(captured_squares, jumps[j].captured_square),
                                   board)
         \o CapturingMovesOfJumps(jumps, j + 1, piece, visited_squares, captured_squares, board)

\* Mutant of add_legal_capturing_moves: a piece without a jump yields the move that
\* visits its own square only
add_legal_capturing_moves_keeps_origin(piece, visited_squares, captured_squares, board) ==
    LET jumps == add_legal_jumps(piece, Last(visited_squares), captured_squares, board)
    IN  IF jumps = <<>>
        THEN <<visited_squares>>
        ELSE CapturingMovesOfJumps(jumps, 1, piece, visited_squares, captured_squares, board)

add_legal_capturing_moves(piece, visited_squares, captured_squares, board) ==
    LET jumps == add_legal_jumps(piece, Last(visited_squares), captured_squares, board)
    IN  IF jumps = <<>>
        THEN IF Len(visited_squares) >= 2 THEN <<visited_squares>> ELSE <<>>
        ELSE CapturingMovesOfJumps(jumps, 1, piece, visited_squares, captured_squares, board)

\* Mutant of KingSlides: a King moves one step only
KingSlides_one_step(origin, destination, delta, board) ==
    IF ~InBoard(destination) THEN <<>>
    ELSE IF board[destination] # EMPTY THEN <<>>
    ELSE << <<origin, destination>> >>

\* add_legal_non_capturing_moves, case KING, one direction
RECURSIVE KingSlides(_, _, _, _)
KingSlides(origin, destination, delta, board) ==
    IF ~InBoard(destination) THEN <<>>
    ELSE IF board[destination] # EMPTY THEN <<>>
    ELSE << <<origin, destination>> >>
         \o KingSlides(origin, Index2D_add(destination, delta), delta, board)

\* add_legal_non_capturing_moves, case MAN, one direction
ManStep(origin, delta, board) ==
    LET destination == Index2D_add(origin, delta)
    IN  IF InBoard(destination) /\ board[destination] = EMPTY
        THEN << <<origin, destination>> >>
        ELSE <<>>

add_legal_non_capturing_moves(piece_type, forward_directions, origin, board) ==
    IF piece_type = MAN
    THEN ManStep(origin, forward_directions[1], board)
         \o ManStep(origin, forward_directions[2], board)
    ELSE KingSlides(origin, Index2D_add(origin, DIAGONAL_DIRECTIONS[1]), DIAGONAL_DIRECTIONS[1], board)
         \o KingSlides(origin, Index2D_add(origin, DIAGONAL_DIRECTIONS[2]), DIAGONAL_DIRECTIONS[2], board)
         \o KingSlides(origin, Index2D_add(origin, DIAGONAL_DIRECTIONS[3]), DIAGONAL_DIRECTIONS[3], board)
         \o KingSlides(origin, Index2D_add(origin, DIAGONAL_DIRECTIONS[4]), DIAGONAL_DIRECTIONS[4], board)

\* determine_legal_moves, lines 34-43: the piece is taken off the board while its
\* capturing moves are gathered
LiftPiece(square, board) == [board EXCEPT ![square] = EMPTY]

\* Mutant of PutPieceBack: the piece that was lifted is not put back
PutPieceBack_forgotten(square, piece, board) == board

\* determine_legal_moves, line 43: board[square] = piece
PutPieceBack(square, piece, board) == [board EXCEPT ![square] = piece]

\* The index of the last square of the column of the i-th square
ColumnEnd(i) == ((i - 1) \div RowCount + 1) * RowCount

\* determine_legal_moves, lines 30-43: the first loop over the squares of one column
\* (the inner loop of CheckersBoard.__iter__), from the i-th square to the square last;
\* acc = [moves, board], the list of moves and the board as the loop leaves them
RECURSIVE GatherCapturingMovesOfColumn(_, _, _, _)
GatherCapturingMovesOfColumn(i, last, current_player, acc) ==
    IF i > last THEN acc
    ELSE LET square == SquareAt(i)
             piece == acc.board[square]
         IN  IF piece = EMPTY \/ piece.owner # current_player
             THEN GatherCapturingMovesOfColumn(i + 1, last, current_player, acc)
             ELSE LET lifted == LiftPiece(square, acc.board)
                      found == add_legal_capturing_moves(piece, <<square>>, <<>>, lifted)
                  IN  TheOne({GatherCapturingMovesOfColumn(i + 1, last, current_player, next) :
                                 next \in {[moves |-> acc.moves \o found,
                                            board |-> PutPieceBack(square, piece, lifted)]}})

\* determine_legal_moves, lines 30-43: the first loop, column by column (the outer loop
\* of CheckersBoard.__iter__), from the i-th square on
RECURSIVE GatherCapturingMoves(_, _, _)
GatherCapturingMoves(i, current_player, acc) ==
    IF i > SquareCount THEN acc
    ELSE TheOne({GatherCapturingMoves(ColumnEnd(i) + 1, current_player, next) :
                    next \in {GatherCapturingMovesOfColumn(i, ColumnEnd(i), current_player,
                                                          acc)}})

\* determine_legal_moves, lines 54-60: the second loop over the squares of one column
RECURSIVE GatherNonCapturingMovesOfColumn(_, _, _, _)
GatherNonCapturingMovesOfColumn(i, last, current_player, board) ==
    IF i > last THEN <<>>
    ELSE LET square == SquareAt(i)
             piece == board[square]
         IN  (IF piece = EMPTY \/ piece.owner # current_player THEN <<>>
              ELSE add_legal_non_capturing_moves(piece.type,
                       get_forward_directions(current_player), square, board))
             \o GatherNonCapturingMovesOfColumn(i + 1, last, current_player, board)

\* determine_legal_moves, lines 54-60: the second loop, column by column
RECURSIVE GatherNonCapturingMoves(_, _, _)
GatherNonCapturingMoves(i, current_player, board) ==
    IF i > SquareCount THEN <<>>
    ELSE GatherNonCapturingMovesOfColumn(i, ColumnEnd(i), current_player, board)
         \o GatherNonCapturingMoves(ColumnEnd(i) + 1, current_player, board)

RECURSIVE MaxLen(_, _)
MaxLen(moves, i) ==
    IF i > Len(moves) THEN 0
    ELSE LET rest == MaxLen(moves, i + 1)
         IN  IF Len(moves[i]) > rest THEN Len(moves[i]) ELSE rest

\* Mutant of KeepLongestMoves: every capturing move is kept, whatever its length
KeepLongestMoves_all(moves) == moves

\* determine_legal_moves, lines 46-50: only the moves of maximum length
KeepLongestMoves(moves) ==
    LET max_move_length == MaxLen(moves, 1)
    IN  SelectSeq(moves, LAMBDA move : Len(move) = max_move_length)

\* determine_legal_moves, lines 46-62, after the first loop has gathered the capturing moves
LegalMovesOfGathered(current_player, gathered) ==
    IF gathered.moves # <<>>
    THEN [moves |-> KeepLongestMoves(gathered.moves), board |-> gathered.board]
    ELSE [moves |-> GatherNonCapturingMoves(1, current_player, gathered.board),
          board |-> gathered.board]

\* determine_legal_moves: [moves |-> the list returned, board |-> the board at return]
determine_legal_moves_on(current_player, board) ==
    TheOne({LegalMovesOfGathered(current_player, gathered) :
               gathered \in {GatherCapturingMoves(1, current_player,
                                                  [moves |-> <<>>, board |-> board])}})

determine_legal_moves(current_player, board) ==
    determine_legal_moves_on(current_player, board).moves

\* remove_pieces_between: board[square] = None for every square strictly between
RECURSIVE RemoveFrom(_, _, _, _)
RemoveFrom(square, end_square, delta, board) ==
    IF square = end_square \/ ~InBoard(square) THEN board
    ELSE RemoveFrom(Index2D_add(square, delta), end_square, delta,
                    [board EXCEPT ![square] = EMPTY])

\* Mutant of remove_pieces_between: no piece is removed
remove_pieces_between_nothing(start_square, end_square, board) == board

remove_pieces_between(start_square, end_square, board) ==
    LET delta == Index2D_sign(Index2D_sub(end_square, start_square))
    IN  RemoveFrom(Index2D_add(start_square, delta), end_square, delta, board)

\* apply, lines 243-244: the loop over the pairs of consecutive visited squares
RECURSIVE RemoveCaptured(_, _, _)
RemoveCaptured(move, i, board) ==
    IF i >= Len(move) THEN board
    ELSE RemoveCaptured(move, i + 1, remove_pieces_between(move[i], move[i + 1], board))

\* Mutant of Crown: no piece is ever crowned
Crown_never(moving_piece, destination) == moving_piece

\* apply, lines 236-238: crown piece
Crown(moving_piece, destination) ==
    IF destination[2] = get_kings_row_index(moving_piece.owner) /\ moving_piece.type = MAN
    THEN CheckersPiece(moving_piece.owner, KING)
    ELSE moving_piece

\* Mutant of apply: the piece is put down before the captured pieces are removed
apply_puts_down_first(move, board) ==
    LET origin == move[1]
        destination == Last(move)
        moving_piece == board[origin]
        picked_up == [board EXCEPT ![origin] = EMPTY]
        crowned == Crown(moving_piece, destination)
    IN  RemoveCaptured(move, 1, [picked_up EXCEPT ![destination] = crowned])

\* apply(move, board): the board after the move
apply(move, board) ==
    LET origin == move[1]
        destination == Last(move)
        moving_piece == board[origin]
        picked_up == [board EXCEPT ![origin] = EMPTY]
        crowned == Crown(moving_piece, destination)
        removed == RemoveCaptured(move, 1, picked_up)
    IN  [removed EXCEPT ![destination] = crowned]

\* CheckersGameResult | None, or the ValueError of CheckersGameResult.__post_init__
NoResult == [kind |-> "None", winner |-> "None", total_ply_count |-> 0]

ValueError == [kind |-> "ValueError", winner |-> "None", total_ply_count |-> 0]

\* CheckersGameResult(winner, total_ply_count) with __post_init__
CheckersGameResult(winner, total_ply_count) ==
    IF total_ply_count <= 0 THEN ValueError
    ELSE [kind |-> "Result", winner |-> winner, total_ply_count |-> total_ply_count]

CountPieces(board, owner, type) ==
    Cardinality({sq \in Squares : board[sq] = CheckersPiece(owner, type)})

\* Mutant of determine_result: the player who cannot move is named the winner
determine_result_stuck_wins(board, current_player, ply_count, legal_move_count) ==
    IF legal_move_count <= 0
    THEN CheckersGameResult(current_player, ply_count)
    ELSE IF /\ CountPieces(board, LIGHT, MAN) = 0
            /\ CountPieces(board, DARK, MAN) = 0
            /\ CountPieces(board, LIGHT, KING) = 1
            /\ CountPieces(board, DARK, KING) = 1
         THEN CheckersGameResult("None", ply_count)
         ELSE NoResult

\* Mutant of determine_result: a king-versus-king endgame is not declared a draw
determine_result_no_draw(board, current_player, ply_count, legal_move_count) ==
    IF legal_move_count <= 0
    THEN CheckersGameResult(IF current_player = LIGHT THEN DARK ELSE LIGHT, ply_count)
    ELSE NoResult

\* determine_result
determine_result(board, current_player, ply_count, legal_move_count) ==
    IF legal_move_count <= 0
    THEN CheckersGameResult(IF current_player = LIGHT THEN DARK ELSE LIGHT, ply_count)
    ELSE IF /\ CountPieces(board, LIGHT, MAN) = 0
            /\ CountPieces(board, DARK, MAN) = 0
            /\ CountPieces(board, LIGHT, KING) = 1
            /\ CountPieces(board, DARK, KING) = 1
         THEN CheckersGameResult("None", ply_count)
         ELSE NoResult

(***************************************************************************)
(* checkers/model/state.py: CheckersState as a value                       *)
(* [board, current_player, ply_count, cached_legal_moves]                  *)
(***************************************************************************)
\* _cached_legal_moves: tuple[CheckersMove, ...] | None
NoCache == [is_none |-> TRUE, moves |-> <<>>]

Cached(moves) == [is_none |-> FALSE, moves |-> moves]

\* CheckersState.__init__, lines 35-40 (the shape is accepted)
CheckersState_init ==
    [board |-> EmptyBoard, current_player |-> LIGHT, ply_count |-> 0,
     cached_legal_moves |-> NoCache]

\* CheckersState.clear
CheckersState_clear(s) ==
    [board |-> [sq \in Squares |-> EMPTY], current_player |-> LIGHT, ply_count |-> 0,
     cached_legal_moves |-> NoCache]

\* CheckersState.start_new_game, lines 74-84: the pieces put on the cleared board
StartingPiece(sq) ==
    LET occupied_row_count == (RowCount - 1) \div 2
        x == sq[1]
        y == sq[2]
    IN  IF y >= RowCount - occupied_row_count /\ y < RowCount /\ (x + y) % 2 = 0
        THEN CheckersPiece(DARK, MAN)
        ELSE IF y >= 0 /\ y < occupied_row_count /\ (x + y) % 2 = 0
        THEN CheckersPiece(LIGHT, MAN)
        ELSE EMPTY

\* Mutant of CheckersState_start_new_game: the pieces are put on the board as it is,
\* without clear()
CheckersState_start_new_game_no_clear(s) ==
    [s EXCEPT !.board = [sq \in Squares |->
                            IF StartingPiece(sq) # EMPTY THEN StartingPiece(sq)
                            ELSE s.board[sq]],
              !.current_player = LIGHT,
              !.ply_count = 0]

\* CheckersState.start_new_game
CheckersState_start_new_game(s) ==
    LET cleared == CheckersState_clear(s)
    IN  [cleared EXCEPT !.board = [sq \in Squares |->
                                      IF StartingPiece(sq) # EMPTY THEN StartingPiece(sq)
                                      ELSE cleared.board[sq]],
                        !.current_player = LIGHT,
                        !.ply_count = 0]

\* CheckersState.legal_moves, lines 95-98, with the list determine_legal_moves returned
CacheLegalMoves(s, determined) ==
    [state |-> [s EXCEPT !.board = determined.board,
                         !.cached_legal_moves = Cached(determined.moves)],
     value |-> determined.moves]

\* CheckersState.legal_moves: [state |-> the state after the read, value |-> the tuple returned]
CheckersState_legal_moves(s) ==
    IF s.cached_legal_moves.is_none
    THEN TheOne({CacheLegalMoves(s, determined) :
                    determined \in {determine_legal_moves_on(s.current_player, s.board)}})
    ELSE [state |-> s, value |-> s.cached_legal_moves.moves]

\* Mutant of ApplyChecked: the cached legal moves survive the move
ApplyChecked_keeps_cache(read, move) ==
    IF move \notin Range(read.value)
    THEN [state |-> read.state, raised |-> "IllegalMove"]
    ELSE [state |-> [read.state EXCEPT
                        !.board = apply(move, read.state.board),
                        !.current_player = CheckersPlayer_next(read.state.current_player),
                        !.ply_count = read.state.ply_count + 1],
          raised |-> "None"]

\* Mutant of ApplyChecked: the board is updated before the move is checked
ApplyChecked_checks_late(read, move) ==
    IF move \notin Range(read.value)
    THEN [state |-> [read.state EXCEPT !.board = apply(move, read.state.board)],
          raised |-> "IllegalMove"]
    ELSE [state |-> [read.state EXCEPT
                        !.board = apply(move, read.state.board),
                        !.current_player = CheckersPlayer_next(read.state.current_player),
                        !.ply_count = read.state.ply_count + 1,
                        !.cached_legal_moves = NoCache],
          raised |-> "None"]

\* CheckersState.apply, lines 103-114, with the legal moves read at line 103
ApplyChecked(read, move) ==
    IF move \notin Range(read.value)
    THEN [state |-> read.state, raised |-> "IllegalMove"]
    ELSE [state |-> [read.state EXCEPT
                        !.board = apply(move, read.state.board),
                        !.current_player = CheckersPlayer_next(read.state.current_player),
                        !.ply_count = read.state.ply_count + 1,
                        !.cached_legal_moves = NoCache],
          raised |-> "None"]

\* CheckersState.apply: [state |-> the state after the call, raised |-> the exception or "None"]
CheckersState_apply(s, move) ==
    TheOne({ApplyChecked(read, move) : read \in {CheckersState_legal_moves(s)}})

\* CheckersState.result, line 120, with the legal moves read there
ResultOfRead(read) ==
    [state |-> read.state,
     value |-> determine_result(read.state.board, read.state.current_player,
                                read.state.ply_count, Len(read.value))]

\* CheckersState.result: [state |-> the state after the read, value |-> the result returned or raised]
CheckersState_result(s) ==
    TheOne({ResultOfRead(read) : read \in {CheckersState_legal_moves(s)}})

\* CheckersBoard.__init__(row_count, column_count): _list_2d[x][y] = None
CheckersBoard_init(row_count, column_count) ==
    [sq \in (0 .. column_count - 1) \X (0 .. row_count - 1) |-> EMPTY]

\* No CheckersState object: __init__ raised before any attribute was set
NoState ==
    [board |-> <<>>, current_player |-> "None", ply_count |-> 0, cached_legal_moves |-> NoCache]

\* Mutant of CheckersState_new: an even number of rows is accepted with any number of columns
CheckersState_new_any_parity(row_count, column_count) ==
    IF row_count < 3 THEN [raised |-> "ValueError", state |-> NoState]
    ELSE IF column_count < 3 THEN [raised |-> "ValueError", state |-> NoState]
    ELSE [raised |-> "None",
          state |-> [board |-> CheckersBoard_init(row_count, column_count),
                     current_player |-> LIGHT, ply_count |-> 0,
                     cached_legal_moves |-> NoCache]]

\* CheckersState(row_count, column_count), lines 22-40
CheckersState_new(row_count, column_count) ==
    IF row_count < 3 THEN [raised |-> "ValueError", state |-> NoState]
    ELSE IF column_count < 3 THEN [raised |-> "ValueError", state |-> NoState]
    ELSE IF row_count % 2 = 0 /\ column_count % 2 = 1
    THEN [raised |-> "ValueError", state |-> NoState]
    ELSE [raised |-> "None",
          state |-> [board |-> CheckersBoard_init(row_count, column_count),
                     current_player |-> LIGHT, ply_count |-> 0,
                     cached_legal_moves |-> NoCache]]

\* No board has been read from the state
NoBoardRead == [held |-> FALSE, is_state_board |-> FALSE, changes |-> 0, cells |-> EmptyBoard]

\* copy.deepcopy of a CheckersBoard: a new _list_2d with the same piece in every cell
deepcopy(b) == [sq \in Squares |-> b[sq]]

\* Mutant of CheckersState_board: the property returns self._board itself
CheckersState_board_no_copy(s) ==
    [held |-> TRUE, is_state_board |-> TRUE, changes |-> 0, cells |-> s.board]

\* CheckersState.board: the object the caller gets, and whether it is the state's own _board
CheckersState_board(s) ==
    [held |-> TRUE, is_state_board |-> FALSE, changes |-> 0, cells |-> deepcopy(s.board)]

\* CheckersBoard.__setitem__(index, piece)
CheckersBoard_setitem(b, index, piece) == [b EXCEPT ![index] = piece]

(***************************************************************************)
(* The game state owned by the controller, and the calls made on it.       *)
(***************************************************************************)
VARIABLES
    board,               \* CheckersState._board
    current_player,      \* CheckersState._current_player
    ply_count,           \* CheckersState._ply_count
    cached_legal_moves,  \* CheckersState._cached_legal_moves
    called,              \* the last call made on the state
    raised,              \* the exception the last call raised, or "None"
    returned,            \* the value the last read of result returned
    last_move,           \* the move of the last accepted call of apply
    moves_returned,      \* the list the last call of determine_legal_moves returned
    game_started,        \* the position comes from start_new_game by accepted moves
    board_read           \* the board the last read of state.board returned, as its holder left it

\* AICheckersMoveSelector, its executor, and the threads that use them
VARIABLES
    future_selected_move,  \* _future_selected_move: 0 for None, or the index in futures
    cancelled_event,       \* _cancelled_event.is_set()
    futures,               \* the futures _executor.submit returned, in order of submission
    work_queue,            \* the searches submitted to _executor and not yet taken
    owner,                 \* the thread that calls the selector: [pc, op]
    worker,                \* the thread of _executor and the locals of the search it runs
    started_on,            \* the state as it was when it was passed to start()
    polled                 \* the value the last call of selected_move() returned

\* CheckersController and the selectors of the two players that need no thread
VARIABLES
    user,                  \* the UserCheckersMoveSelector of each player
    controller             \* CheckersController: its selectors, _current_move_selector, its position in _update

state_vars == <<board, current_player, ply_count, cached_legal_moves>>

search_vars == <<future_selected_move, cancelled_event, futures, work_queue,
                 owner, worker, started_on, polled>>

vars == <<board, current_player, ply_count, cached_legal_moves,
          called, raised, returned, last_move, moves_returned, game_started,
          board_read, shape, user, controller,
          future_selected_move, cancelled_event, futures, work_queue,
          owner, worker, started_on, polled>>

State == [board |-> board, current_player |-> current_player, ply_count |-> ply_count,
          cached_legal_moves |-> cached_legal_moves]

SetState(s) ==
    /\ board' = s.board
    /\ current_player' = s.current_player
    /\ ply_count' = s.ply_count
    /\ cached_legal_moves' = s.cached_legal_moves

\* A square that start_new_game can fill: (x + y) % 2 == 0
Playable(sq) == (sq[1] + sq[2]) % 2 = 0

PlayableSquares == {sq \in Squares : Playable(sq)}

\* Arguments of apply: the legal moves, any two playable squares, and the legal
\* moves cut short by one square
MoveInputs(legal_moves) ==
    Range(legal_moves)
    \cup {<<a, b>> : a \in PlayableSquares, b \in PlayableSquares}
    \cup {SubSeq(m, 1, Len(m) - 1) : m \in {l \in Range(legal_moves) : Len(l) >= 3}}

(***************************************************************************)
(* checkers/game/move_selector_types.py: the values AICheckersMoveSelector *)
(* and its executor hold.                                                  *)
(***************************************************************************)
\* CheckersMove | None: the value of a future and of selected_move(); the kind is
\* the name of the exception when the search raised one
NoMove == [kind |-> "None", move |-> <<>>]

SelectedMove(move) == [kind |-> "Move", move |-> move]

TypeError == [kind |-> "TypeError", move |-> <<>>]

SearchValueError == [kind |-> "ValueError", move |-> <<>>]

\* concurrent.futures.Future of a call pure_monte_carlo_game_search(state,
\* playout_count, cancelled_event) as submit returns it; signalled = the state the
\* future was in when reset() set the cancelled event for it, "None" if it never did
SubmittedFuture(playout_count) ==
    [state |-> "PENDING", result |-> NoMove, signalled |-> "None",
     playout_count |-> playout_count]

PendingFuture == SubmittedFuture(PlayoutCount)

\* tuple[float, float] | None of determine_score_for_move: the sum of the scores of
\* the playouts, in thousandths
NoScore == [is_none |-> TRUE, total |-> 0]

Score(total) == [is_none |-> FALSE, total |-> total]

\* The worker thread waiting for work; applied_when_set counts the moves the running
\* search applied to its clones while the cancelled event was set
WorkerIdle ==
    [pc |-> "idle", search |-> 0, playout_count |-> 0, legal_moves |-> <<>>,
     move_index |-> 0,
     scores |-> <<>>, score |-> NoScore, square_index |-> 0, lifted |-> EMPTY,
     gathered |-> <<>>, max_ply_count |-> 0,
     playout_start_state |-> CheckersState_init, playout_state |-> CheckersState_init,
     playout_results |-> <<>>, playout_scores |-> <<>>,
     applied_when_set |-> 0]

\* The calling thread between two calls; op = the call of the selector that
\* returned last
OwnerIdle == [pc |-> "idle", op |-> "None"]

Returned(op) == [pc |-> "idle", op |-> op]

(***************************************************************************)
(* checkers/gui/input.py: UserCheckersMoveSelector.                        *)
(***************************************************************************)
\* UserCheckersMoveSelector.__init__; raised = the AssertionError of
\* _update_selectable_squares, once it was raised
UserCheckersMoveSelector_init ==
    [selectable_moves |-> <<>>, selectable_squares |-> {}, selected_squares |-> <<>>,
     selected_move |-> NoMove, raised |-> "None"]

\* reset()
UserCheckersMoveSelector_reset(selector) ==
    [selector EXCEPT !.selectable_moves = <<>>, !.selectable_squares = {},
                     !.selected_squares = <<>>, !.selected_move = NoMove]

\* _update_selectable_squares, lines 92-101: move starts with the selected squares
StartsWithSelected(move, selected_squares) ==
    /\ Len(move) >= Len(selected_squares)
    /\ \A n \in 1 .. Len(selected_squares) : move[n] = selected_squares[n]

\* _update_selectable_squares, lines 90-101
MatchingMoves(selector) ==
    SelectSeq(selector.selectable_moves,
              LAMBDA move : StartsWithSelected(move, selector.selected_squares))

\* _update_selectable_squares, lines 105-116, with the matching moves of lines 90-101
UpdateOfMatching(selector, matching_moves) ==
    IF Len(matching_moves) < 1
    THEN [selector EXCEPT !.raised = "AssertionError"]
    ELSE IF \E i \in 1 .. Len(matching_moves) :
               Len(matching_moves[i]) = Len(selector.selected_squares)
    THEN IF Len(matching_moves) # 1
         THEN [selector EXCEPT !.raised = "AssertionError"]
         ELSE [selector EXCEPT !.selected_move = SelectedMove(matching_moves[1]),
                               !.selected_squares = <<>>]
    ELSE [selector EXCEPT !.selectable_squares =
             {matching_moves[i][Len(selector.selected_squares) + 1] :
                 i \in 1 .. Len(matching_moves)}]

\* _update_selectable_squares
update_selectable_squares(selector) ==
    IF selector.selected_move.kind = "Move" /\ Len(selector.selected_move.move) > 0
    THEN selector
    ELSE IF selector.selectable_moves = <<>>
    THEN [selector EXCEPT !.selectable_squares = {}]
    ELSE UpdateOfMatching([selector EXCEPT !.selectable_squares = {}],
                          MatchingMoves(selector))

\* start(state), with legal_moves = state.legal_moves
UserCheckersMoveSelector_start(selector, legal_moves) ==
    update_selectable_squares(
        [UserCheckersMoveSelector_reset(selector) EXCEPT !.selectable_moves = legal_moves])

\* Mutant of UserCheckersMoveSelector_select: any square is added to the selection
UserCheckersMoveSelector_select_any(selector, square) ==
    IF selector.selectable_squares = {} THEN selector
    ELSE update_selectable_squares(
             [selector EXCEPT !.selected_squares = Append(@, square)])

\* select(square)
UserCheckersMoveSelector_select(selector, square) ==
    IF selector.selectable_squares = {} THEN selector
    ELSE IF square \in selector.selectable_squares
    THEN update_selectable_squares(
             [selector EXCEPT !.selected_squares = Append(@, square)])
    ELSE update_selectable_squares(
             [selector EXCEPT !.selected_squares = <<>>, !.selected_move = NoMove])

\* The user selectors of the two players before any call
NoUserSelectors == [player \in CheckersPlayer |-> UserCheckersMoveSelector_init]

(***************************************************************************)
(* checkers/game/controller.py: CheckersController.                        *)
(***************************************************************************)
USER == "USER"

RANDOM == "RANDOM"

AI == "AI"

\* The move selector types create_checkers_move_selector is called with; the AI
\* levels differ in their playout count only
CheckersMoveSelectorType == {USER, RANDOM, AI}

\* CheckersController.__init__ with the selector types of the two players: pc = the
\* position in _update, selected_move = the local of _update, random = the
\* _selected_move of each RandomCheckersMoveSelector, started and applied = the
\* selections started and the moves passed to apply so far
CheckersController_init(light_type, dark_type) ==
    [types |-> [player \in CheckersPlayer |->
                   IF player = LIGHT THEN light_type ELSE dark_type],
     current_move_selector |-> "None",
     pc |-> "update",
     selected_move |-> NoMove,
     random |-> [player \in CheckersPlayer |-> NoMove],
     started |-> 0,
     applied |-> 0,
     position |-> <<>>]

\* No controller is running
NoController == CheckersController_init(USER, USER)

\* AICheckersMoveSelector.__init__
SelectorInit ==
    /\ future_selected_move = 0
    /\ cancelled_event = FALSE
    /\ futures = <<>>
    /\ work_queue = <<>>
    /\ owner = OwnerIdle
    /\ worker = WorkerIdle
    /\ started_on = CheckersState_init
    /\ polled = NoMove

Init ==
    /\ shape = <<ROW_COUNT, COLUMN_COUNT>>
    /\ board = CheckersState_init.board
    /\ current_player = CheckersState_init.current_player
    /\ ply_count = CheckersState_init.ply_count
    /\ cached_legal_moves = CheckersState_init.cached_legal_moves
    /\ called = "init"
    /\ raised = "None"
    /\ returned = NoResult
    /\ last_move = <<>>
    /\ moves_returned = <<>>
    /\ game_started = FALSE
    /\ board_read = NoBoardRead
    /\ user = NoUserSelectors
    /\ controller = NoController
    /\ SelectorInit

Clear ==
    /\ SetState(CheckersState_clear(State))
    /\ called' = "clear"
    /\ raised' = "None"
    /\ returned' = NoResult
    /\ last_move' = <<>>
    /\ game_started' = FALSE
    /\ UNCHANGED moves_returned
    /\ UNCHANGED <<search_vars, board_read, shape, user, controller>>

StartNewGame ==
    /\ SetState(CheckersState_start_new_game(State))
    /\ called' = "start_new_game"
    /\ raised' = "None"
    /\ returned' = NoResult
    /\ last_move' = <<>>
    /\ game_started' = TRUE
    /\ UNCHANGED moves_returned
    /\ UNCHANGED <<search_vars, board_read, shape, user, controller>>

ReadLegalMoves ==
    /\ SetState(CheckersState_legal_moves(State).state)
    /\ called' = "legal_moves"
    /\ raised' = "None"
    /\ returned' = NoResult
    /\ last_move' = <<>>
    /\ UNCHANGED <<game_started, moves_returned>>
    /\ UNCHANGED <<search_vars, board_read, shape, user, controller>>

ApplyDone(done, move) ==
    /\ SetState(done.state)
    /\ raised' = done.raised
    /\ last_move' = (IF done.raised = "None" THEN move ELSE <<>>)

\* apply(move), for every move of MoveInputs; read = the legal moves apply reads first
ApplyAny(read) ==
    \E move \in MoveInputs(read.value) : ApplyDone(ApplyChecked(read, move), move)

Apply ==
    /\ ply_count < MaxPly
    /\ ApplyAny(CheckersState_legal_moves(State))
    /\ called' = "apply"
    /\ returned' = NoResult
    /\ UNCHANGED <<game_started, moves_returned>>
    /\ UNCHANGED <<search_vars, board_read, shape, user, controller>>

ResultRead(read) ==
    /\ SetState(read.state)
    /\ raised' = (IF read.value.kind = "ValueError" THEN "ValueError" ELSE "None")
    /\ returned' = read.value

ReadResult ==
    /\ ResultRead(CheckersState_result(State))
    /\ called' = "result"
    /\ last_move' = <<>>
    /\ UNCHANGED <<game_started, moves_returned>>
    /\ UNCHANGED <<search_vars, board_read, shape, user, controller>>

Next ==
    \/ Clear
    \/ StartNewGame
    \/ ReadLegalMoves
    \/ Apply
    \/ ReadResult

Spec == Init /\ [][Next]_vars

(***************************************************************************)
(* A caller that reads state.board and changes cells of the board it got.  *)
(***************************************************************************)
\* The most moves applied before the board is read
BoardPly == 1

\* The most cells the caller changes in one board it read
MaxCellChanges == 1

BoardApply ==
    /\ ply_count < BoardPly
    /\ Apply

\* b = state.board
ReadBoard ==
    /\ board_read' = CheckersState_board(State)
    /\ called' = "board"
    /\ raised' = "None"
    /\ returned' = NoResult
    /\ last_move' = <<>>
    /\ UNCHANGED <<state_vars, game_started, moves_returned>>
    /\ UNCHANGED <<search_vars, shape, user, controller>>

\* b[index] = piece on the board the last read returned; an object that is the state's
\* own _board changes the state with it
SetCell(index, piece) ==
    /\ board_read' = [board_read EXCEPT !.cells = CheckersBoard_setitem(@, index, piece),
                                        !.changes = @ + 1]
    /\ board' = (IF board_read.is_state_board
                 THEN CheckersBoard_setitem(board, index, piece) ELSE board)

ChangeCell ==
    /\ board_read.held
    /\ board_read.changes < MaxCellChanges
    /\ \E index \in Squares : \E piece \in Pieces \cup {EMPTY} :
          /\ board_read.cells[index] # piece
          /\ SetCell(index, piece)
    /\ called' = "board.__setitem__"
    /\ raised' = "None"
    /\ returned' = NoResult
    /\ last_move' = <<>>
    /\ UNCHANGED <<current_player, ply_count, cached_legal_moves, game_started,
                   moves_returned>>
    /\ UNCHANGED <<search_vars, shape, user, controller>>

BoardNext ==
    \/ StartNewGame
    \/ BoardApply
    \/ ReadBoard
    \/ ChangeCell
    \/ ReadLegalMoves
    \/ ReadResult

BoardSpec == Init /\ [][BoardNext]_vars

(***************************************************************************)
(* The constructor of CheckersState, called with any shape.                *)
(***************************************************************************)
\* The largest row_count and column_count passed to the constructor
MaxShapeCount == 10

ShapeCounts == -1 .. MaxShapeCount

\* The state before the call: the arguments are chosen, no object exists
ConstructInit ==
    /\ shape \in ShapeCounts \X ShapeCounts
    /\ board = NoState.board
    /\ current_player = NoState.current_player
    /\ ply_count = NoState.ply_count
    /\ cached_legal_moves = NoState.cached_legal_moves
    /\ called = "new"
    /\ raised = "None"
    /\ returned = NoResult
    /\ last_move = <<>>
    /\ moves_returned = <<>>
    /\ game_started = FALSE
    /\ board_read = NoBoardRead
    /\ user = NoUserSelectors
    /\ controller = NoController
    /\ SelectorInit

\* state = CheckersState(row_count, column_count)
Construct ==
    /\ called = "new"
    /\ SetState(CheckersState_new(shape[1], shape[2]).state)
    /\ raised' = CheckersState_new(shape[1], shape[2]).raised
    /\ called' = "init"
    /\ UNCHANGED <<returned, last_move, moves_returned, game_started>>
    /\ UNCHANGED <<search_vars, board_read, shape, user, controller>>

\* The most moves applied to a state that was constructed
ShapePly == 1

\* The constructor has returned a state
Constructed == called # "new" /\ current_player \in CheckersPlayer

\* state.start_new_game()
ConstructStart ==
    /\ Constructed
    /\ StartNewGame

\* state.legal_moves
ConstructRead ==
    /\ Constructed
    /\ ReadLegalMoves

\* state.apply(move) for the moves of read = state.legal_moves
ConstructApplyLegal(read) ==
    \E move \in Range(read.value) : ApplyDone(ApplyChecked(read, move), move)

ConstructApply ==
    /\ Constructed
    /\ ply_count < ShapePly
    /\ ConstructApplyLegal(CheckersState_legal_moves(State))
    /\ called' = "apply"
    /\ returned' = NoResult
    /\ UNCHANGED <<game_started, moves_returned>>
    /\ UNCHANGED <<search_vars, board_read, shape, user, controller>>

ConstructNext ==
    \/ Construct
    \/ ConstructStart
    \/ ConstructRead
    \/ ConstructApply

ConstructSpec == ConstructInit /\ [][ConstructNext]_vars

(***************************************************************************)
(* The rules engine called on any board: determine_legal_moves and apply   *)
(* as pure functions of (current_player, board).                           *)
(***************************************************************************)
\* The boards with at most MaxPieces pieces, all on playable squares
BoardWith(occupied, pieces) ==
    [sq \in Squares |-> IF sq \in occupied THEN pieces[sq] ELSE EMPTY]

RulesInit ==
    /\ shape = <<ROW_COUNT, COLUMN_COUNT>>
    /\ \E occupied \in {o \in SUBSET PlayableSquares : Cardinality(o) <= MaxPieces} :
          \E pieces \in [occupied -> Pieces] :
             board = BoardWith(occupied, pieces)
    /\ current_player \in CheckersPlayer
    /\ ply_count = 0
    /\ cached_legal_moves = NoCache
    /\ called = "init"
    /\ raised = "None"
    /\ returned = NoResult
    /\ last_move = <<>>
    /\ moves_returned = <<>>
    /\ game_started = FALSE
    /\ board_read = NoBoardRead
    /\ user = NoUserSelectors
    /\ controller = NoController
    /\ SelectorInit

\* moves = determine_legal_moves(current_player, board)
RulesDetermineLegalMoves ==
    /\ called = "init"
    /\ called' = "determine_legal_moves"
    /\ moves_returned' = determine_legal_moves(current_player, board)
    /\ board' = determine_legal_moves_on(current_player, board).board
    /\ UNCHANGED <<current_player, ply_count, cached_legal_moves, raised, returned,
                   last_move, game_started>>
    /\ UNCHANGED <<search_vars, board_read, shape, user, controller>>

\* apply(move, board) for a move of determine_legal_moves(current_player, board)
RulesApply ==
    /\ called = "init"
    /\ \E move \in Range(determine_legal_moves(current_player, board)) :
          /\ board' = apply(move, board)
          /\ last_move' = move
    /\ called' = "apply"
    /\ UNCHANGED <<current_player, ply_count, cached_legal_moves, raised, returned,
                   moves_returned, game_started>>
    /\ UNCHANGED <<search_vars, board_read, shape, user, controller>>

RulesNext ==
    \/ RulesDetermineLegalMoves
    \/ RulesApply

RulesSpec == RulesInit /\ [][RulesNext]_vars

(***************************************************************************)
(* The rules engine on a board with diagonals long enough for a King to    *)
(* approach a piece from a distance and to land at a distance behind it.   *)
(***************************************************************************)
KingRows == 5

KingColumns == 5

KingPieces == 3

KingInit ==
    /\ shape = <<KingRows, KingColumns>>
    /\ \E occupied \in {o \in SUBSET PlayableSquares : Cardinality(o) <= KingPieces} :
          \E pieces \in [occupied -> Pieces] :
             board = BoardWith(occupied, pieces)
    /\ current_player \in CheckersPlayer
    /\ ply_count = 0
    /\ cached_legal_moves = NoCache
    /\ called = "init"
    /\ raised = "None"
    /\ returned = NoResult
    /\ last_move = <<>>
    /\ moves_returned = <<>>
    /\ game_started = FALSE
    /\ board_read = NoBoardRead
    /\ user = NoUserSelectors
    /\ controller = NoController
    /\ SelectorInit

KingSpec == KingInit /\ [][RulesNext]_vars

(***************************************************************************)
(* The rules engine on boards where one piece faces Men of the opponent    *)
(* that stand so that a capture chain can lead around them.                *)
(***************************************************************************)
ChainRows == 6

ChainColumns == 6

ChainVictims == 4

\* the playable squares off the edge of the board: the squares where a piece can be jumped
InnerSquares ==
    {sq \in PlayableSquares : /\ 0 < sq[1] /\ sq[1] < ColumnCount - 1
                              /\ 0 < sq[2] /\ sq[2] < RowCount - 1}

\* one piece of the player on origin and a Man of the opponent on every square of victims
ChainBoard(player, origin, type, victims) ==
    [sq \in Squares |->
        IF sq = origin THEN CheckersPiece(player, type)
        ELSE IF sq \in victims THEN CheckersPiece(CheckersPlayer_next(player), MAN)
        ELSE EMPTY]

ChainInit ==
    /\ shape = <<ChainRows, ChainColumns>>
    /\ current_player \in CheckersPlayer
    /\ \E origin \in PlayableSquares : \E type \in CheckersPieceType :
          \E victims \in {v \in SUBSET (InnerSquares \ {origin}) :
                             Cardinality(v) <= ChainVictims} :
             board = ChainBoard(current_player, origin, type, victims)
    /\ ply_count = 0
    /\ cached_legal_moves = NoCache
    /\ called = "init"
    /\ raised = "None"
    /\ returned = NoResult
    /\ last_move = <<>>
    /\ moves_returned = <<>>
    /\ game_started = FALSE
    /\ board_read = NoBoardRead
    /\ user = NoUserSelectors
    /\ controller = NoController
    /\ SelectorInit

ChainSpec == ChainInit /\ [][RulesNext]_vars

(***************************************************************************)
(* UserCheckersMoveSelector: start(state), select(square) and reset() in   *)
(* any order, for the player to move in a position with one piece of that  *)
(* player and the Men of the opponent around it.                           *)
(***************************************************************************)
\* selector.start(state): state.legal_moves is read, and cached by the state
UserStartWith(read) ==
    /\ user' = [user EXCEPT ![current_player] =
                   UserCheckersMoveSelector_start(@, read.value)]
    /\ SetState(read.state)

UserStart ==
    /\ user[current_player].raised = "None"
    /\ UserStartWith(CheckersState_legal_moves(State))
    /\ called' = "start"
    /\ UNCHANGED <<raised, returned, last_move, moves_returned, game_started,
                   board_read, shape, controller, search_vars>>

\* selector.select(square) for any square a piece can stand on
UserSelect ==
    /\ user[current_player].raised = "None"
    /\ \E square \in PlayableSquares :
          user' = [user EXCEPT ![current_player] =
                      UserCheckersMoveSelector_select(@, square)]
    /\ called' = "select"
    /\ UNCHANGED <<state_vars, raised, returned, last_move, moves_returned, game_started,
                   board_read, shape, controller, search_vars>>

\* selector.reset()
UserReset ==
    /\ user[current_player].raised = "None"
    /\ user' = [user EXCEPT ![current_player] = UserCheckersMoveSelector_reset(@)]
    /\ called' = "reset"
    /\ UNCHANGED <<state_vars, raised, returned, last_move, moves_returned, game_started,
                   board_read, shape, controller, search_vars>>

UserNext ==
    \/ UserStart
    \/ UserSelect
    \/ UserReset

\* The most opposing Men around the piece of the player who selects
UserVictims == 3

UserInit ==
    /\ shape = <<ChainRows, ChainColumns>>
    /\ current_player \in CheckersPlayer
    /\ \E origin \in PlayableSquares : \E type \in CheckersPieceType :
          \E victims \in {v \in SUBSET (InnerSquares \ {origin}) :
                             Cardinality(v) <= UserVictims} :
             board = ChainBoard(current_player, origin, type, victims)
    /\ ply_count = 0
    /\ cached_legal_moves = NoCache
    /\ called = "init"
    /\ raised = "None"
    /\ returned = NoResult
    /\ last_move = <<>>
    /\ moves_returned = <<>>
    /\ game_started = FALSE
    /\ board_read = NoBoardRead
    /\ user = NoUserSelectors
    /\ controller = NoController
    /\ SelectorInit

UserSpec == UserInit /\ [][UserNext]_vars

(***************************************************************************)
(* checkers/ai/solver.py, as the pure parts of the search                  *)
(***************************************************************************)
\* Mutant of determine_score: the game duration score is not capped
determine_score_uncapped(result, player) ==
    IF result.kind = "None" THEN 500
    ELSE IF result.winner = "None" THEN 500 + result.total_ply_count
    ELSE IF result.winner = player THEN 1000 - result.total_ply_count
    ELSE 0 + result.total_ply_count

\* Mutant of determine_score: a win scores the higher the longer the game took
determine_score_late_win(result, player) ==
    IF result.kind = "None" THEN 500
    ELSE LET game_duration_score ==
                 IF result.total_ply_count < 200 THEN result.total_ply_count ELSE 200
         IN  IF result.winner = "None" THEN 500 + game_duration_score
             ELSE IF result.winner = player THEN 800 + game_duration_score
             ELSE 0 + game_duration_score

\* determine_score, in thousandths
determine_score(result, player) ==
    IF result.kind = "None" THEN 500
    ELSE LET game_duration_score ==
                 IF result.total_ply_count < 200 THEN result.total_ply_count ELSE 200
         IN  IF result.winner = "None" THEN 500 + game_duration_score
             ELSE IF result.winner = player THEN 1000 - game_duration_score
             ELSE 0 + game_duration_score

\* determine_score_for_move, lines 86-90: mean(scores) times the number of playouts
RECURSIVE SumOfScores(_, _, _)
SumOfScores(playout_results, i, player) ==
    IF i > Len(playout_results) THEN 0
    ELSE determine_score(playout_results[i], player)
         + SumOfScores(playout_results, i + 1, player)

Max(a, b) == IF a > b THEN a ELSE b

Abs(a) == IF a < 0 THEN -a ELSE a

\* isclose(score, best_score, rel_tol=1e-5, abs_tol=1e-5) of two means given as
\* sums of playout_count scores in thousandths
isclose(a, b, playout_count) ==
    Abs(a - b) * 100000 <= Max(Max(Abs(a), Abs(b)), 1000 * playout_count)

RECURSIVE BestTotal(_, _)
BestTotal(scores, i) ==
    IF i > Len(scores) THEN 0
    ELSE Max(scores[i].total, BestTotal(scores, i + 1))

\* Mutant of BestMoves: every scored move is kept
BestMoves_all(legal_moves, scores, best_score, playout_count) ==
    {legal_moves[i] : i \in 1 .. Len(legal_moves)}

\* pure_monte_carlo_game_search, lines 56-57
BestMoves(legal_moves, scores, best_score, playout_count) ==
    {legal_moves[i] : i \in {j \in 1 .. Len(legal_moves) :
                                isclose(scores[j].total, best_score, playout_count)}}

\* determine_legal_moves, line 30: the next square from the i-th on that holds a piece
\* of current_player, SquareCount + 1 when the iteration is over
RECURSIVE NextOwnPiece(_, _, _)
NextOwnPiece(i, player, b) ==
    IF i > SquareCount THEN i
    ELSE IF b[SquareAt(i)] # EMPTY /\ b[SquareAt(i)].owner = player THEN i
    ELSE NextOwnPiece(i + 1, player, b)

(***************************************************************************)
(* The search run by the worker thread of the executor on the state that   *)
(* was passed to start(), and the calls of the thread that owns the        *)
(* selector.                                                               *)
(***************************************************************************)
call_vars == <<called, raised, returned, last_move, moves_returned, game_started,
               board_read, shape, user, controller>>

SearchInit ==
    /\ shape = <<ROW_COUNT, COLUMN_COUNT>>
    /\ board = CheckersState_start_new_game(CheckersState_init).board
    /\ current_player = CheckersState_start_new_game(CheckersState_init).current_player
    /\ ply_count = CheckersState_start_new_game(CheckersState_init).ply_count
    /\ cached_legal_moves = NoCache
    /\ called = "start_new_game"
    /\ raised = "None"
    /\ returned = NoResult
    /\ last_move = <<>>
    /\ moves_returned = <<>>
    /\ game_started = TRUE
    /\ board_read = NoBoardRead
    /\ user = NoUserSelectors
    /\ controller = NoController
    /\ SelectorInit

\* Mutant of FutureResultAvailable: reset() does not wait for the search to finish
FutureResultAvailable_no_wait(future) == future.state \in {"PENDING", "RUNNING", "FINISHED"}

\* reset(), line 47: self._future_selected_move.result() returns once the future is done
FutureResultAvailable(future) == future.state = "FINISHED"

\* start(), line 57: self._executor.submit(pure_monte_carlo_game_search, state, ...)
Submit ==
    /\ futures' = Append(futures, PendingFuture)
    /\ future_selected_move' = Len(futures) + 1
    /\ work_queue' = Append(work_queue, Len(futures) + 1)
    /\ started_on' = State

\* Mutant of ResetDone: reset() keeps the future it waited for
ResetDone_keeps_future(op) ==
    /\ cancelled_event' = FALSE
    /\ IF op = "start"
       THEN Submit
       ELSE UNCHANGED <<future_selected_move, futures, work_queue, started_on>>
    /\ owner' = (IF op = "__del__" THEN [pc |-> "deleted", op |-> op] ELSE Returned(op))

\* Mutant of ResetDone: reset() leaves the cancelled event as it is
ResetDone_keeps_event(op) ==
    /\ UNCHANGED cancelled_event
    /\ IF op = "start"
       THEN Submit
       ELSE /\ future_selected_move' = 0
            /\ UNCHANGED <<futures, work_queue, started_on>>
    /\ owner' = (IF op = "__del__" THEN [pc |-> "deleted", op |-> op] ELSE Returned(op))

\* reset(), lines 49-50, and what the caller of reset() does next
ResetDone(op) ==
    /\ cancelled_event' = FALSE
    /\ IF op = "start"
       THEN Submit
       ELSE /\ future_selected_move' = 0
            /\ UNCHANGED <<futures, work_queue, started_on>>
    /\ owner' = (IF op = "__del__" THEN [pc |-> "deleted", op |-> op] ELSE Returned(op))

\* reset(), lines 43-45, called by start(), by the user of the selector or by __del__
OwnerCall(op) ==
    /\ IF future_selected_move # 0
       THEN /\ cancelled_event' = TRUE
            /\ owner' = [pc |-> "result", op |-> op]
            /\ futures' = [futures EXCEPT ![future_selected_move].signalled =
                              IF futures[future_selected_move].signalled = "None"
                              THEN futures[future_selected_move].state
                              ELSE futures[future_selected_move].signalled]
            /\ UNCHANGED <<future_selected_move, work_queue, started_on>>
       ELSE ResetDone(op)
    /\ UNCHANGED <<state_vars, call_vars, worker, polled>>

\* start(state)
Start ==
    /\ owner.pc = "idle"
    /\ Len(futures) < MaxSearches
    /\ OwnerCall("start")

\* reset()
Reset ==
    /\ owner.pc = "idle"
    /\ OwnerCall("reset")

\* __del__(), lines 38-39: after reset() the executor has nothing left to wait for
Del ==
    /\ owner.pc = "idle"
    /\ OwnerCall("__del__")

\* reset(), line 47: result() re-raises what the search raised, and reset() ends there
ResetRaised ==
    /\ owner' = Returned("raised")
    /\ UNCHANGED <<future_selected_move, cancelled_event, futures, work_queue, started_on>>

\* Mutant of OwnerResult: reset() clears the event while it still waits for the search
OwnerResult_clears_first ==
    /\ owner.pc = "result"
    /\ IF FutureResultAvailable(futures[future_selected_move])
       THEN IF futures[future_selected_move].result.kind \in {"TypeError", "ValueError"}
            THEN ResetRaised
            ELSE ResetDone(owner.op)
       ELSE /\ cancelled_event
            /\ cancelled_event' = FALSE
            /\ UNCHANGED <<future_selected_move, futures, work_queue, owner, started_on>>
    /\ UNCHANGED <<state_vars, call_vars, worker, polled>>

\* reset(), line 47: the wait is over
OwnerResult ==
    /\ owner.pc = "result"
    /\ FutureResultAvailable(futures[future_selected_move])
    /\ IF futures[future_selected_move].result.kind \in {"TypeError", "ValueError"}
       THEN ResetRaised
       ELSE ResetDone(owner.op)
    /\ UNCHANGED <<state_vars, call_vars, worker, polled>>

\* selected_move()
SelectedMoveValue ==
    IF future_selected_move = 0 THEN NoMove
    ELSE IF futures[future_selected_move].state # "FINISHED" THEN NoMove
    ELSE futures[future_selected_move].result

\* Mutant of SelectedMovePoll: a result that has been returned is not kept
SelectedMovePoll_consumes ==
    /\ owner.pc = "idle"
    /\ polled' = SelectedMoveValue
    /\ future_selected_move' = (IF SelectedMoveValue = NoMove THEN future_selected_move ELSE 0)
    /\ UNCHANGED <<state_vars, call_vars, cancelled_event, futures,
                   work_queue, owner, worker, started_on>>

SelectedMovePoll ==
    /\ owner.pc = "idle"
    /\ polled' = SelectedMoveValue
    /\ UNCHANGED <<state_vars, call_vars, future_selected_move, cancelled_event, futures,
                   work_queue, owner, worker, started_on>>

\* controller.py, _update, lines 109-118: the selected move is applied after reset()
ControllerUpdate ==
    /\ owner.pc = "idle"
    /\ SelectedMoveValue.kind = "Move"
    /\ polled' = SelectedMoveValue
    /\ future_selected_move' = 0
    /\ cancelled_event' = FALSE
    /\ owner' = Returned("reset")
    /\ SetState(CheckersState_apply(State, SelectedMoveValue.move).state)
    /\ UNCHANGED <<call_vars, futures, work_queue, worker, started_on>>

\* state.legal_moves read by the owner of the state while no search is submitted
OwnerReadLegalMoves ==
    /\ owner.pc = "idle"
    /\ future_selected_move = 0
    /\ cached_legal_moves.is_none
    /\ SetState(CheckersState_legal_moves(State).state)
    /\ UNCHANGED <<call_vars, search_vars>>


owner_vars == <<future_selected_move, cancelled_event, work_queue, owner, started_on, polled>>

\* ThreadPoolExecutor, max_workers = 1: the worker thread takes the next search
WorkerTake ==
    /\ worker.pc = "idle"
    /\ work_queue # <<>>
    /\ worker' = [WorkerIdle EXCEPT
                     !.pc = "legal_moves",
                     !.search = Head(work_queue),
                     !.playout_count = futures[Head(work_queue)].playout_count]
    /\ futures' = [futures EXCEPT ![Head(work_queue)].state = "RUNNING"]
    /\ work_queue' = Tail(work_queue)
    /\ UNCHANGED <<state_vars, call_vars, future_selected_move, cancelled_event, owner,
                   started_on, polled>>

\* Mutant of SearchReturn: the search ends but its future is never marked done
SearchReturn_not_done(result) ==
    /\ futures' = [futures EXCEPT ![worker.search].result = result]
    /\ worker' = WorkerIdle

\* pure_monte_carlo_game_search returns or raises: the future is done
SearchReturn(result) ==
    /\ futures' = [futures EXCEPT ![worker.search].state = "FINISHED",
                                  ![worker.search].result = result]
    /\ worker' = WorkerIdle

\* Mutant of SearchOfLegalMoves: a single legal move is scored like any other
SearchOfLegalMoves_scores_single(legal_moves) ==
    IF legal_moves = <<>> THEN SearchReturn(NoMove)
    ELSE /\ worker' = [WorkerIdle EXCEPT !.pc = "score", !.search = worker.search,
                                         !.playout_count = worker.playout_count,
                                         !.legal_moves = legal_moves, !.move_index = 1]
         /\ UNCHANGED futures

\* pure_monte_carlo_game_search, lines 35-43, with the legal moves read at line 34
SearchOfLegalMoves(legal_moves) ==
    IF legal_moves = <<>> THEN SearchReturn(NoMove)
    ELSE IF Len(legal_moves) = 1 THEN SearchReturn(SelectedMove(legal_moves[1]))
    ELSE /\ worker' = [WorkerIdle EXCEPT !.pc = "score", !.search = worker.search,
                                         !.playout_count = worker.playout_count,
                                         !.legal_moves = legal_moves, !.move_index = 1]
         /\ UNCHANGED futures

\* pure_monte_carlo_game_search, line 34: state.legal_moves on the caller's state,
\* state.py line 95
WorkerReadLegalMoves ==
    /\ worker.pc = "legal_moves"
    /\ IF cached_legal_moves.is_none
       THEN /\ worker' = [worker EXCEPT !.pc = "gather", !.square_index = 1]
            /\ UNCHANGED futures
       ELSE SearchOfLegalMoves(cached_legal_moves.moves)
    /\ UNCHANGED <<state_vars, call_vars, owner_vars>>

\* state.py line 96 and rules.py lines 46-62: the caller's state caches the moves
WorkerCache(moves) ==
    /\ cached_legal_moves' = Cached(moves)
    /\ SearchOfLegalMoves(moves)
    /\ UNCHANGED board

\* rules.py lines 30-35: the piece on the i-th square is taken off the caller's board
WorkerLift(i) ==
    IF i <= SquareCount
    THEN /\ board' = LiftPiece(SquareAt(i), board)
         /\ worker' = [worker EXCEPT !.pc = "lifted", !.square_index = i,
                                     !.lifted = board[SquareAt(i)]]
         /\ UNCHANGED <<cached_legal_moves, futures>>
    ELSE \E determined \in {LegalMovesOfGathered(current_player,
                                 [moves |-> worker.gathered, board |-> board])} :
            WorkerCache(determined.moves)

\* determine_legal_moves on the caller's board, one iteration of the loop of line 30
WorkerGather ==
    /\ worker.pc = "gather"
    /\ \E i \in {NextOwnPiece(worker.square_index, current_player, board)} :
          WorkerLift(i)
    /\ UNCHANGED <<current_player, ply_count, call_vars, owner_vars>>

\* rules.py lines 38-43: the capturing moves of the lifted piece, then board[square] = piece
WorkerPutBack ==
    /\ worker.pc = "lifted"
    /\ worker' = [worker EXCEPT
                     !.pc = "gather",
                     !.square_index = worker.square_index + 1,
                     !.lifted = EMPTY,
                     !.gathered = worker.gathered
                                  \o add_legal_capturing_moves(worker.lifted,
                                         <<SquareAt(worker.square_index)>>, <<>>, board)]
    /\ board' = PutPieceBack(SquareAt(worker.square_index), worker.lifted, board)
    /\ UNCHANGED <<current_player, ply_count, cached_legal_moves, call_vars, owner_vars,
                   futures>>

\* The count of moves applied while the event was set, after one more move is applied
AppliedWhenSet ==
    IF cancelled_event THEN worker.applied_when_set + 1 ELSE worker.applied_when_set

\* determine_score_for_move, lines 75-78, and run_playout, line 102
BeginPlayouts(playout_start_state) ==
    worker' = [worker EXCEPT !.pc = "playout",
                             !.max_ply_count = ply_count + MAX_RECURSION_DEPTH,
                             !.playout_start_state = playout_start_state,
                             !.playout_state = playout_start_state,
                             !.playout_results = <<>>,
                             !.applied_when_set = AppliedWhenSet]

\* pure_monte_carlo_game_search, line 45: determine_score_for_move(move, state, ...)
WorkerScoreMove ==
    /\ worker.pc = "score"
    /\ IF worker.playout_count <= 0
       THEN SearchReturn(SearchValueError)
       ELSE /\ \E applied \in {CheckersState_apply(State,
                                    worker.legal_moves[worker.move_index])} :
                  BeginPlayouts(applied.state)
            /\ UNCHANGED futures
    /\ UNCHANGED <<state_vars, call_vars, owner_vars>>

\* run_playout returns
PlayoutReturn(result) ==
    /\ worker' = [worker EXCEPT !.pc = "after_playout",
                                !.playout_results = Append(worker.playout_results, result)]
    /\ UNCHANGED futures

\* run_playout, line 117: state.apply(random.choice(state.legal_moves))
PlayoutApply(read) ==
    \E move \in Range(read.value) :
       worker' = [worker EXCEPT !.pc = "playout",
                                !.playout_state = ApplyChecked(read, move).state,
                                !.applied_when_set = AppliedWhenSet]

\* Mutant of PlayoutStep: the playout has no ply-count ceiling
PlayoutStep_no_ceiling(read) ==
    IF read.value.kind = "ValueError" THEN SearchReturn(SearchValueError)
    ELSE IF read.value.kind = "Result" THEN PlayoutReturn(read.value)
    ELSE /\ \E legal_moves \in {CheckersState_legal_moves(read.state)} :
               PlayoutApply(legal_moves)
         /\ UNCHANGED futures

\* run_playout, lines 109-117, with the result read at line 109
PlayoutStep(read) ==
    IF read.value.kind = "ValueError" THEN SearchReturn(SearchValueError)
    ELSE IF read.value.kind = "Result" THEN PlayoutReturn(read.value)
    ELSE IF read.state.ply_count >= worker.max_ply_count THEN PlayoutReturn(NoResult)
    ELSE /\ \E legal_moves \in {CheckersState_legal_moves(read.state)} :
               PlayoutApply(legal_moves)
         /\ UNCHANGED futures

\* run_playout, lines 103-106: the top of an iteration, where the event is read
WorkerPlayout ==
    /\ worker.pc = "playout"
    /\ IF cancelled_event
       THEN PlayoutReturn(NoResult)
       ELSE /\ worker' = [worker EXCEPT !.pc = "playout_step"]
            /\ UNCHANGED futures
    /\ UNCHANGED <<state_vars, call_vars, owner_vars>>

\* run_playout, lines 109-117: the rest of the iteration, after the event was found clear
WorkerPlayoutStep ==
    /\ worker.pc = "playout_step"
    /\ \E read \in {CheckersState_result(worker.playout_state)} :
          PlayoutStep(read)
    /\ UNCHANGED <<state_vars, call_vars, owner_vars>>

\* Mutant of WorkerAfterPlayout: run_playout works on the state it is given
WorkerAfterPlayout_no_copy ==
    /\ worker.pc = "after_playout"
    /\ IF cancelled_event
       THEN worker' = [worker EXCEPT !.pc = "after_score", !.score = NoScore]
       ELSE IF Len(worker.playout_results) < worker.playout_count
       THEN worker' = [worker EXCEPT !.pc = "playout",
                                     !.playout_start_state = worker.playout_state]
       ELSE worker' = [worker EXCEPT
                          !.pc = "after_score",
                          !.score = Score(SumOfScores(worker.playout_results, 1,
                                                      current_player))]
    /\ UNCHANGED <<state_vars, call_vars, owner_vars, futures>>

\* determine_score_for_move, lines 80-90, after run_playout has returned
WorkerAfterPlayout ==
    /\ worker.pc = "after_playout"
    /\ IF cancelled_event
       THEN worker' = [worker EXCEPT !.pc = "after_score", !.score = NoScore]
       ELSE IF Len(worker.playout_results) < worker.playout_count
       THEN worker' = [worker EXCEPT !.pc = "playout",
                                     !.playout_state = worker.playout_start_state]
       ELSE worker' = [worker EXCEPT
                          !.pc = "after_score",
                          !.score = Score(SumOfScores(worker.playout_results, 1,
                                                      current_player))]
    /\ UNCHANGED <<state_vars, call_vars, owner_vars, futures>>

\* pure_monte_carlo_game_search, lines 56-58: random.choice(best_moves)
SearchSelect(scores) ==
    IF \E i \in 1 .. Len(scores) : scores[i].is_none
    THEN SearchReturn(TypeError)
    ELSE \E move \in BestMoves(worker.legal_moves, scores, BestTotal(scores, 1),
                              worker.playout_count) :
            SearchReturn(SelectedMove(move))

\* Mutant of WorkerAfterScore: the loop over the candidate moves does not test the event
WorkerAfterScore_no_test ==
    /\ worker.pc = "after_score"
    /\ IF worker.move_index < Len(worker.legal_moves)
       THEN /\ worker' = [worker EXCEPT !.pc = "score",
                                        !.move_index = worker.move_index + 1,
                                        !.scores = Append(worker.scores, worker.score),
                                        !.score = NoScore]
            /\ UNCHANGED futures
       ELSE SearchSelect(Append(worker.scores, worker.score))
    /\ UNCHANGED <<state_vars, call_vars, owner_vars>>

\* pure_monte_carlo_game_search, lines 45-58, after determine_score_for_move has returned
WorkerAfterScore ==
    /\ worker.pc = "after_score"
    /\ IF cancelled_event
       THEN SearchReturn(NoMove)
       ELSE IF worker.move_index < Len(worker.legal_moves)
       THEN /\ worker' = [worker EXCEPT !.pc = "score",
                                        !.move_index = worker.move_index + 1,
                                        !.scores = Append(worker.scores, worker.score),
                                        !.score = NoScore]
            /\ UNCHANGED futures
       ELSE SearchSelect(Append(worker.scores, worker.score))
    /\ UNCHANGED <<state_vars, call_vars, owner_vars>>

SearchNext ==
    \/ Start
    \/ Reset
    \/ Del
    \/ OwnerResult
    \/ SelectedMovePoll
    \/ ControllerUpdate
    \/ OwnerReadLegalMoves
    \/ WorkerTake
    \/ WorkerReadLegalMoves
    \/ WorkerGather
    \/ WorkerPutBack
    \/ WorkerScoreMove
    \/ WorkerPlayout
    \/ WorkerPlayoutStep
    \/ WorkerAfterPlayout
    \/ WorkerAfterScore

SearchSpec == SearchInit /\ [][SearchNext]_vars

\* The steps of the worker thread of the executor
WorkerNext ==
    \/ WorkerTake
    \/ WorkerReadLegalMoves
    \/ WorkerGather
    \/ WorkerPutBack
    \/ WorkerScoreMove
    \/ WorkerPlayout
    \/ WorkerPlayoutStep
    \/ WorkerAfterPlayout
    \/ WorkerAfterScore

\* The threads are scheduled fairly: the worker thread keeps running while it has a
\* step to take, and a thread blocked in result() resumes once the future is done
SearchFairSpec ==
    /\ SearchInit
    /\ [][SearchNext]_vars
    /\ WF_vars(WorkerNext)
    /\ WF_vars(OwnerResult)

(***************************************************************************)
(* pure_monte_carlo_game_search called directly, on the positions of a     *)
(* game, with any playout count and with the cancelled event set before    *)
(* the call, during it, or never.                                          *)
(***************************************************************************)
\* The largest playout count the search is called with directly
MaxPlayoutCount == 2

\* The playout counts the search is called with
PlayoutCounts == -1 .. MaxPlayoutCount

\* The thread that calls the solver without a selector
Caller == [pc |-> "solver", op |-> "None"]

SolverInit ==
    /\ shape = <<ROW_COUNT, COLUMN_COUNT>>
    /\ board = CheckersState_start_new_game(CheckersState_init).board
    /\ current_player = CheckersState_start_new_game(CheckersState_init).current_player
    /\ ply_count = CheckersState_start_new_game(CheckersState_init).ply_count
    /\ cached_legal_moves = NoCache
    /\ called = "start_new_game"
    /\ raised = "None"
    /\ returned = NoResult
    /\ last_move = <<>>
    /\ moves_returned = <<>>
    /\ game_started = TRUE
    /\ board_read = NoBoardRead
    /\ user = NoUserSelectors
    /\ controller = NoController
    /\ future_selected_move = 0
    /\ cancelled_event = FALSE
    /\ futures = <<>>
    /\ work_queue = <<>>
    /\ owner = Caller
    /\ worker = WorkerIdle
    /\ started_on = CheckersState_init
    /\ polled = NoMove

\* state.apply(move) for a legal move, before the search is called
SolverApply ==
    /\ worker.pc = "idle"
    /\ futures = <<>>
    /\ ply_count < SolverPly
    /\ \E move \in Range(CheckersState_legal_moves(State).value) :
          SetState(CheckersState_apply(State, move).state)
    /\ UNCHANGED <<call_vars, search_vars>>

\* pure_monte_carlo_game_search(state, playout_count, cancelled_event) is called
SolverCallWith(playout_count, cancelled) ==
    /\ futures' = <<[SubmittedFuture(playout_count) EXCEPT
                        !.state = "RUNNING",
                        !.signalled = IF cancelled THEN "PENDING" ELSE "None"]>>
    /\ worker' = [WorkerIdle EXCEPT !.pc = "legal_moves", !.search = 1,
                                    !.playout_count = playout_count]
    /\ cancelled_event' = cancelled

SolverCall ==
    /\ worker.pc = "idle"
    /\ futures = <<>>
    /\ \E playout_count \in PlayoutCounts, cancelled \in BOOLEAN :
          SolverCallWith(playout_count, cancelled)
    /\ started_on' = State
    /\ UNCHANGED <<state_vars, call_vars, future_selected_move, work_queue, owner, polled>>

\* cancelled_event.set() by another thread while the search runs
SolverCancel ==
    /\ worker.pc # "idle"
    /\ ~cancelled_event
    /\ cancelled_event' = TRUE
    /\ futures' = [futures EXCEPT ![worker.search].signalled = "RUNNING"]
    /\ UNCHANGED <<state_vars, call_vars, future_selected_move, work_queue, owner,
                   worker, started_on, polled>>

SolverNext ==
    \/ SolverApply
    \/ SolverCall
    \/ SolverCancel
    \/ WorkerReadLegalMoves
    \/ WorkerGather
    \/ WorkerPutBack
    \/ WorkerScoreMove
    \/ WorkerPlayout
    \/ WorkerPlayoutStep
    \/ WorkerAfterPlayout
    \/ WorkerAfterScore

SolverSpec == SolverInit /\ [][SolverNext]_vars

(***************************************************************************)
(* CheckersController.play: the game loop of the main thread, with a user, *)
(* a random or an AI selector for each player, and the worker thread of    *)
(* the AI selector.                                                        *)
(***************************************************************************)
\* The number of plies the controller plays
ControllerPly == 4

\* The selector types of the two players; at most one of them is an AI selector
ControllerTypes ==
    {types \in CheckersMoveSelectorType \X CheckersMoveSelectorType :
        types # <<AI, AI>>}

\* play(), lines 86-90: the controller has started a new game
ControllerInit ==
    /\ shape = <<ROW_COUNT, COLUMN_COUNT>>
    /\ board = CheckersState_start_new_game(CheckersState_init).board
    /\ current_player = CheckersState_start_new_game(CheckersState_init).current_player
    /\ ply_count = CheckersState_start_new_game(CheckersState_init).ply_count
    /\ cached_legal_moves = NoCache
    /\ called = "start_new_game"
    /\ raised = "None"
    /\ returned = NoResult
    /\ last_move = <<>>
    /\ moves_returned = <<>>
    /\ game_started = TRUE
    /\ board_read = NoBoardRead
    /\ user = NoUserSelectors
    /\ \E types \in ControllerTypes :
          controller = CheckersController_init(types[1], types[2])
    /\ SelectorInit

\* The main thread is in _update or _handle_events, and nothing was raised
ControllerRuns(pc) ==
    /\ controller.pc = pc
    /\ raised = "None"
    /\ \A player \in CheckersPlayer : user[player].raised = "None"

\* RandomCheckersMoveSelector.start, line 56, with legal_moves = state.legal_moves
RandomCheckersMoveSelector_start(legal_moves) ==
    IF legal_moves = <<>> THEN {NoMove}
    ELSE {SelectedMove(move) : move \in Range(legal_moves)}

\* _start_move_selection, line 77, for the selector of each type; read = state.legal_moves
StartSelector(type, read) ==
    /\ SetState(read.state)
    /\ IF type = USER
       THEN user' = [user EXCEPT ![current_player] =
                        UserCheckersMoveSelector_start(@, read.value)]
       ELSE UNCHANGED user
    /\ \E selected \in (IF type = RANDOM THEN RandomCheckersMoveSelector_start(read.value)
                        ELSE {controller.random[current_player]}) :
          controller' = [controller EXCEPT !.current_move_selector = current_player,
                                           !.started = @ + 1,
                                           !.position = <<board, current_player>>,
                                           !.random[current_player] = selected]

\* _update, lines 111-113, for the user and the random selector
ControllerStartSelection ==
    /\ ControllerRuns("update")
    /\ controller.current_move_selector = "None"
    /\ controller.types[current_player] # AI
    /\ ply_count < ControllerPly
    /\ StartSelector(controller.types[current_player], CheckersState_legal_moves(State))
    /\ called' = "start"
    /\ UNCHANGED <<raised, returned, last_move, moves_returned, game_started,
                   board_read, shape, search_vars>>

\* _update, lines 111-113, for the AI selector: reset() finds no future, and start()
\* submits the search of the controller's own state
ControllerStartSearch ==
    /\ ControllerRuns("update")
    /\ controller.current_move_selector = "None"
    /\ controller.types[current_player] = AI
    /\ ply_count < ControllerPly
    /\ future_selected_move = 0
    /\ cancelled_event' = FALSE
    /\ Submit
    /\ controller' = [controller EXCEPT !.current_move_selector = current_player,
                                        !.started = @ + 1,
                                        !.position = <<board, current_player>>]
    /\ called' = "start"
    /\ UNCHANGED <<state_vars, raised, returned, last_move, moves_returned, game_started,
                   board_read, shape, user, owner, worker, polled>>

\* _handle_mouse_event, lines 147-149: a click on a square of the board
ControllerSelect ==
    /\ ControllerRuns("update")
    /\ controller.current_move_selector # "None"
    /\ controller.types[controller.current_move_selector] = USER
    /\ \E square \in Squares :
          user' = [user EXCEPT ![controller.current_move_selector] =
                      UserCheckersMoveSelector_select(@, square)]
    /\ called' = "select"
    /\ UNCHANGED <<state_vars, raised, returned, last_move, moves_returned, game_started,
                   board_read, shape, controller, search_vars>>

\* self._current_move_selector.selected_move()
CurrentSelectedMove ==
    IF controller.types[controller.current_move_selector] = USER
    THEN user[controller.current_move_selector].selected_move
    ELSE IF controller.types[controller.current_move_selector] = RANDOM
    THEN controller.random[controller.current_move_selector]
    ELSE SelectedMoveValue

\* Mutant of StopSelector: the selector is neither reset nor forgotten
StopSelector_keeps_selector(type, player, selected_move) ==
    /\ controller' = [controller EXCEPT !.pc = "apply",
                                        !.selected_move = selected_move]
    /\ UNCHANGED <<user, future_selected_move, cancelled_event>>

\* _stop_move_selection: reset() of the current selector, which is then forgotten
StopSelector(type, player, selected_move) ==
    /\ controller' = [controller EXCEPT !.current_move_selector = "None",
                                        !.pc = "apply",
                                        !.selected_move = selected_move,
                                        !.random[player] = NoMove]
    /\ user' = [user EXCEPT ![player] =
                   IF type = USER THEN UserCheckersMoveSelector_reset(@) ELSE @]
    /\ future_selected_move' = (IF type = AI THEN 0 ELSE future_selected_move)
    /\ cancelled_event' = (IF type = AI THEN FALSE ELSE cancelled_event)

\* _update, lines 116-117: a move has been selected, the selection is stopped
ControllerStopSelection ==
    /\ ControllerRuns("update")
    /\ controller.current_move_selector # "None"
    /\ CurrentSelectedMove.kind = "Move"
    /\ Len(CurrentSelectedMove.move) > 0
    /\ StopSelector(controller.types[controller.current_move_selector],
                    controller.current_move_selector, CurrentSelectedMove)
    /\ called' = "reset"
    /\ UNCHANGED <<state_vars, raised, returned, last_move, moves_returned, game_started,
                   board_read, shape, futures, work_queue, owner, worker, started_on,
                   polled>>

\* _update, line 118, and _apply_move: self._state.apply(selected_move)
ControllerApplyMove(applied) ==
    /\ SetState(applied.state)
    /\ raised' = applied.raised
    /\ last_move' = controller.selected_move.move
    /\ controller' = [controller EXCEPT !.pc = "update", !.selected_move = NoMove,
                                        !.applied = @ + 1]

ControllerApply ==
    /\ ControllerRuns("apply")
    /\ ControllerApplyMove(CheckersState_apply(State, controller.selected_move.move))
    /\ called' = "apply"
    /\ UNCHANGED <<returned, moves_returned, game_started, board_read, shape, user,
                   search_vars>>

ControllerNext ==
    \/ ControllerStartSelection
    \/ ControllerStartSearch
    \/ ControllerSelect
    \/ ControllerStopSelection
    \/ ControllerApply
    \/ WorkerTake
    \/ WorkerReadLegalMoves
    \/ WorkerGather
    \/ WorkerPutBack
    \/ WorkerScoreMove
    \/ WorkerPlayout
    \/ WorkerPlayoutStep
    \/ WorkerAfterPlayout
    \/ WorkerAfterScore

ControllerSpec == ControllerInit /\ [][ControllerNext]_vars

(***************************************************************************)
(* determine_score applied to the results of two playouts, as line 86 of   *)
(* determine_score_for_move does, from the perspective of either player.   *)
(***************************************************************************)
\* The results of two playouts that ended the same way after p and q plies, p <= q,
\* and of two playouts that reached the maximum depth
ResultPairs(max_total_ply) ==
    {<<CheckersGameResult(winner, p), CheckersGameResult(winner, q)>> :
        winner \in {LIGHT, DARK, "None"},
        p \in 1 .. max_total_ply, q \in 1 .. max_total_ply}
    \cup {<<NoResult, NoResult>>}

\* The root states: the start of a game, and the position after its first legal move
ScoreRoots ==
    {CheckersState_start_new_game(CheckersState_init)}
    \cup {CheckersState_apply(CheckersState_start_new_game(CheckersState_init),
              CheckersState_legal_moves(
                  CheckersState_start_new_game(CheckersState_init)).value[1]).state}

ScoreInit ==
    /\ shape = <<ROW_COUNT, COLUMN_COUNT>>
    /\ \E root \in ScoreRoots :
          /\ board = root.board
          /\ current_player = root.current_player
          /\ ply_count = root.ply_count
          /\ cached_legal_moves = root.cached_legal_moves
    /\ called = "start_new_game"
    /\ raised = "None"
    /\ returned = NoResult
    /\ last_move = <<>>
    /\ moves_returned = <<>>
    /\ game_started = TRUE
    /\ board_read = NoBoardRead
    /\ user = NoUserSelectors
    /\ controller = NoController
    /\ future_selected_move = 0
    /\ cancelled_event = FALSE
    /\ futures = <<>>
    /\ work_queue = <<>>
    /\ owner = Caller
    /\ \E pair \in {rs \in ResultPairs(MaxTotalPly) : rs[1].total_ply_count <= rs[2].total_ply_count} :
          worker = [WorkerIdle EXCEPT !.pc = "determine_score", !.playout_count = 2,
                                      !.playout_results = pair]
    /\ started_on = CheckersState_init
    /\ polled = NoMove

\* determine_score_for_move, line 86:
\* scores = [determine_score(result, root_state.current_player) for result in playout_results]
DetermineScores ==
    /\ worker.pc = "determine_score"
    /\ worker' = [worker EXCEPT
                     !.pc = "scored",
                     !.playout_scores =
                         [i \in 1 .. Len(worker.playout_results) |->
                             determine_score(worker.playout_results[i], current_player)]]
    /\ UNCHANGED <<state_vars, call_vars, owner_vars, futures>>

ScoreNext == DetermineScores

ScoreSpec == ScoreInit /\ [][ScoreNext]_vars

(***************************************************************************)
(* The rules of capture, stated over sets of squares.                      *)
(***************************************************************************)
Diagonals == {<<dx, dy>> : dx \in {-1, 1}, dy \in {-1, 1}}

Reach == 1 .. (RowCount + ColumnCount)

Along(origin, d, k) == <<origin[1] + k * d[1], origin[2] + k * d[2]>>

Opponent(player) == IF player = LIGHT THEN DARK ELSE LIGHT

\* piece at origin jumps over the k-th square in direction d and lands j squares behind it
CanJump(piece, origin, d, k, j, taken, b) ==
    /\ InBoard(Along(origin, d, k + j))
    /\ piece.type = MAN => (k = 1 /\ j = 1)
    /\ b[Along(origin, d, k)].owner = Opponent(piece.owner)
    /\ Along(origin, d, k) \notin taken
    /\ \A i \in 1 .. (k + j) : i # k => b[Along(origin, d, i)] = EMPTY

SingleJumps(piece, origin, taken, b) ==
    {[destination |-> Along(origin, t[1], t[2] + t[3]),
      captured_square |-> Along(origin, t[1], t[2])] :
        t \in {u \in Diagonals \X Reach \X Reach :
                  CanJump(piece, origin, u[1], u[2], u[3], taken, b)}}

Maximum(numbers) == CHOOSE n \in numbers : \A m \in numbers : m <= n

\* the largest number of pieces that piece can capture in one move from origin
RECURSIVE MostCaptures(_, _, _, _)
MostCapturesOver(jumps, piece, taken, b) ==
    IF jumps = {} THEN 0
    ELSE 1 + Maximum({MostCaptures(piece, j.destination, taken \cup {j.captured_square}, b) :
                         j \in jumps})

MostCaptures(piece, origin, taken, b) ==
    MostCapturesOver(SingleJumps(piece, origin, taken, b), piece, taken, b)

OwnSquares(player, b) == {sq \in Squares : b[sq].owner = player}

\* the largest number of captures of the piece on sq, lifted off the board meanwhile
MostCapturesOf(sq, b) == MostCaptures(b[sq], sq, {}, [b EXCEPT ![sq] = EMPTY])

\* the largest number of captures over all the pieces of player
GlobalMostCaptures(player, b) ==
    Maximum({0} \cup {MostCapturesOf(sq, b) : sq \in OwnSquares(player, b)})

\* the squares strictly between two squares of a common diagonal
Between(from, to) ==
    {sq \in Squares :
        \E d \in Diagonals : \E k \in Reach : \E n \in Reach :
            /\ k < n
            /\ sq = Along(from, d, k)
            /\ to = Along(from, d, n)}

\* every jump of the move passes over at least one piece of the opponent
CapturesAtEveryJump(move, player, b) ==
    /\ Len(move) >= 2
    /\ \A i \in 1 .. (Len(move) - 1) :
          \E sq \in Between(move[i], move[i + 1]) : b[sq].owner = Opponent(player)

MaximumCaptureRule(moves, player, b, most) ==
    most > 0 =>
        /\ moves # <<>>
        /\ \A i \in 1 .. Len(moves) :
              /\ Len(moves[i]) = most + 1
              /\ CapturesAtEveryJump(moves[i], player, b)

\* C1: if any piece of the player can capture, determine_legal_moves returns only
\* capturing moves, all of one length: the largest number of captures over all
\* the player's pieces, plus one.
C1_MandatoryMaximumCapture ==
    called = "determine_legal_moves" =>
        MaximumCaptureRule(moves_returned, current_player, board,
                           GlobalMostCaptures(current_player, board))

\* C1 witness: the legal moves were determined on a board where one piece of the
\* player has a capture shorter than the longest capture of another piece.
C1_Witness ==
    /\ called = "determine_legal_moves"
    /\ moves_returned # <<>>
    /\ \E sq \in OwnSquares(current_player, board) :
          /\ MostCapturesOf(sq, board) > 0
          /\ MostCapturesOf(sq, board) < Len(moves_returned[1]) - 1
          /\ sq # moves_returned[1][1]

KingsRow(player) == IF player = LIGHT THEN RowCount - 1 ELSE 0

CrownedAsRuled(piece_before, piece_after, destination) ==
    /\ piece_after.owner = piece_before.owner
    /\ piece_after.type = KING <=>
          (piece_before.type = KING \/ destination[2] = KingsRow(piece_before.owner))

\* C6: after apply of a legal move the moved piece keeps its owner and is a King
\* exactly when it was a King or its destination lies on its owner's king's row.
C6_CrownedAtDestinationOnly ==
    [][called' = "apply" =>
          CrownedAsRuled(board[last_move'[1]], board'[Last(last_move')], Last(last_move'))]_vars

\* C6 witness: a Man visited its king's row in the middle of a capture chain,
\* ended on another row and is still a Man.
C6_Witness ==
    /\ called = "apply"
    /\ Len(last_move) >= 3
    /\ board[Last(last_move)].type = MAN
    /\ Last(last_move)[2] # KingsRow(board[Last(last_move)].owner)
    /\ \E i \in 2 .. (Len(last_move) - 1) :
          last_move[i][2] = KingsRow(board[Last(last_move)].owner)

(***************************************************************************)
(* The game state: results, cache and turns.                               *)
(***************************************************************************)
Win(winner, ply) == [kind |-> "Result", winner |-> winner, total_ply_count |-> ply]

Draw(ply) == [kind |-> "Result", winner |-> "None", total_ply_count |-> ply]

WinnerIffNoLegalMoves(result, moves, player, ply) ==
    /\ (result.kind = "Result" /\ result.winner \in CheckersPlayer) <=> (moves = <<>>)
    /\ moves = <<>> => result = Win(Opponent(player), ply)

\* C2: in every state reached from start_new_game by legal moves, result names a
\* winner if and only if there is no legal move, and then the winner is the
\* opponent of the current player and total_ply_count is the state's ply_count.
C2_WinnerIffNoLegalMoves ==
    (game_started /\ called = "result") =>
        WinnerIffNoLegalMoves(returned, determine_legal_moves(current_player, board),
                              current_player, ply_count)

\* C2 witness: result was read in a game where the player to move has no legal move.
C2_Witness ==
    /\ game_started
    /\ called = "result"
    /\ ply_count > 0
    /\ returned.winner \in CheckersPlayer

\* C3: legal_moves always equals determine_legal_moves freshly computed for the
\* current player and the current board, whatever was cached before.
C3_LegalMovesNeverStale ==
    CheckersState_legal_moves(State).value = determine_legal_moves(current_player, board)

\* C3 witness: legal moves are cached again after a move that followed an earlier read.
C3_Witness ==
    /\ called = "legal_moves"
    /\ ~cached_legal_moves.is_none
    /\ ply_count >= 2

\* C4: a call of apply either is rejected with the illegal-move error and leaves
\* board, current player and ply count as they were, or is accepted and its
\* move is a member of the legal moves of the state it was called on.
C4_RejectedApplyChangesNothing ==
    [][called' = "apply" =>
          \/ /\ raised' = "IllegalMove"
             /\ UNCHANGED <<board, current_player, ply_count>>
          \/ /\ raised' = "None"
             /\ last_move' \in Range(determine_legal_moves(current_player, board))]_vars

\* C4 witness: apply was rejected in the middle of a game.
C4_Witness ==
    /\ called = "apply"
    /\ raised = "IllegalMove"
    /\ ply_count >= 1
    /\ determine_legal_moves(current_player, board) # <<>>

\* C5: every accepted apply gives the turn to the other player and adds one to
\* ply_count, and the current player is Light exactly when ply_count is even.
C5_TurnsAlternate ==
    [][/\ (called' = "apply" /\ raised' = "None") =>
              /\ current_player' = Opponent(current_player)
              /\ ply_count' = ply_count + 1
       /\ (current_player' = LIGHT) <=> (ply_count' % 2 = 0)]_vars

\* C5 witness: a second move was accepted, so the turn is back with Light.
C5_Witness ==
    /\ called = "apply"
    /\ raised = "None"
    /\ ply_count >= 2
    /\ current_player = LIGHT

KingVersusKing(b) ==
    /\ Cardinality({sq \in Squares : b[sq] # EMPTY}) = 2
    /\ \E sq \in Squares : b[sq] = CheckersPiece(LIGHT, KING)
    /\ \E sq \in Squares : b[sq] = CheckersPiece(DARK, KING)

\* C7: in every position with exactly one Light King, one Dark King and no Men,
\* result is a draw, whichever player is to move.
C7_KingVersusKingIsDraw ==
    KingVersusKing(board) => CheckersState_result(State).value = Draw(ply_count)

\* C7 witness: result was read in a king-versus-king position.
C7_Witness ==
    /\ KingVersusKing(board)
    /\ called = "result"
    /\ returned = Draw(ply_count)

\* C8: whenever the player to move has no legal move - determine_result is called
\* with legal_move_count = 0 - the result names the other player as winner and
\* carries the ply count, also when the ply count is 0.
C8_NoLegalMoveNamesWinner ==
    (called = "result" /\ determine_legal_moves(current_player, board) = <<>>) =>
        returned = Win(Opponent(current_player), ply_count)

(***************************************************************************)
(* The search and the state it was started on.                             *)
(***************************************************************************)
Unfinished == {id \in 1 .. Len(futures) : futures[id].state # "FINISHED"}

SearchInFlight == Unfinished # {}

\* C9: while a search is in flight the worker never modifies the board, the current
\* player or the ply count of the state passed to start(), not even temporarily:
\* they are what they were when start() was called
C9_RootStateOnlyRead ==
    SearchInFlight =>
        /\ board = started_on.board
        /\ current_player = started_on.current_player
        /\ ply_count = started_on.ply_count

\* C10: for one AI selector at most one search is executing or waiting to execute at
\* any time: start() sets the cancelled event for the prior search and submits the
\* new search only after the prior one has finished, and after __del__ no search is
\* left unfinished
C10_AtMostOneSearch ==
    /\ Cardinality(Unfinished) <= 1
    /\ owner.pc = "result" => cancelled_event
    /\ worker.pc # "idle" => work_queue = <<>>
    /\ owner.pc = "deleted" => Unfinished = {}

\* A second search runs after start() cancelled the first one while it was running
C10_Witness ==
    /\ Len(futures) = 2
    /\ futures[1].signalled = "RUNNING"
    /\ futures[1].state = "FINISHED"
    /\ futures[2].state = "RUNNING"
    /\ worker.search = 2

\* The search was called with the cancelled event already set
CalledCancelled(id) == futures[id].signalled = "PENDING"

\* C11: when the cancelled event is already set at the call, with a positive playout
\* count, determine_score_for_move returns None (no score) and
\* pure_monte_carlo_game_search returns None (no move), and neither raises
C11_CancelledCallReturnsNone ==
    \A id \in 1 .. Len(futures) :
       (CalledCancelled(id) /\ futures[id].playout_count > 0) =>
          /\ (worker.search = id /\ worker.pc = "after_score") => worker.score = NoScore
          /\ futures[id].state = "FINISHED" => futures[id].result = NoMove

\* The selector is Idle: no future, the cancelled event clear, nothing to return
SelectorIdle ==
    /\ future_selected_move = 0
    /\ ~cancelled_event
    /\ SelectedMoveValue = NoMove

\* C12: when reset() has returned, no search is in flight or waiting and the selector
\* is Idle (no future, cancelled event clear, selected_move() = None), whatever state
\* it was called in: Running, Done, Idle, or right after another reset()
C12_ResetLeavesIdle ==
    (owner.pc = "idle" /\ owner.op = "reset") =>
        /\ SelectorIdle
        /\ Unfinished = {}
        /\ work_queue = <<>>
        /\ worker.pc = "idle"

\* reset() has returned after it cancelled the search that was running
C12_Witness ==
    /\ owner.pc = "idle"
    /\ owner.op = "reset"
    /\ futures # <<>>
    /\ futures[Len(futures)].signalled = "RUNNING"
    /\ futures[Len(futures)].state = "FINISHED"

\* C13: under fair scheduling a reset() or start() that waits for a search always
\* returns, and a playout that finds the cancelled event set applies no further move
C13_ResetEventuallyReturns ==
    /\ (owner.pc = "result") ~> (owner.pc # "result")
    /\ [][(cancelled_event /\ worker.pc = "playout") =>
             worker'.playout_state = worker.playout_state]_vars

\* The caller waits in reset() while the worker is in the middle of a playout
C13_Witness ==
    /\ owner.pc = "result"
    /\ cancelled_event
    /\ worker.pc = "playout"
    /\ worker.search = future_selected_move

\* The future of the selector is done
SearchDone ==
    /\ future_selected_move # 0
    /\ futures[future_selected_move].state = "FINISHED"

\* C14: selected_move() returns without waiting: None while the search is pending or
\* running, and once the search is done the result the worker returned, on every call
\* until the next start() or reset()
C14_SelectedMoveKeepsResult ==
    [][/\ (future_selected_move # 0 /\ ~SearchDone) => SelectedMoveValue = NoMove
       /\ SearchDone => SelectedMoveValue = futures[future_selected_move].result
       /\ polled' # polled => polled' = SelectedMoveValue
       /\ (SearchDone /\ owner.pc = "idle" /\ owner' = owner) =>
             SelectedMoveValue' = SelectedMoveValue]_vars

\* selected_move() has returned the move of a search that is done and still held
C14_Witness ==
    /\ SearchDone
    /\ owner.pc = "idle"
    /\ polled.kind = "Move"
    /\ polled = futures[future_selected_move].result

\* C15: the cancelled event is clear in the state in which a search is submitted, and
\* it goes from set to clear only when no search is pending or running
C15_EventClearedOnlyWhenIdle ==
    [][/\ Len(futures') > Len(futures) => ~cancelled_event'
       /\ (cancelled_event /\ ~cancelled_event') => Unfinished = {}]_vars

\* A second search has been submitted with the event clear, after the event was set
\* for the first one
C15_Witness ==
    /\ Len(futures) = 2
    /\ futures[1].signalled = "RUNNING"
    /\ futures[2].state = "PENDING"
    /\ ~cancelled_event

\* The worker is in determine_score_for_move: it has cloned the state and applied a move
Scoring == worker.pc \in {"score", "playout", "playout_step", "after_playout", "after_score"}

\* The search of a root state with the single legal move legal_moves[1]
SingleMoveSearch(legal_moves) ==
    /\ ~Scoring
    /\ worker.playout_results = <<>>
    /\ worker.playout_state = WorkerIdle.playout_state
    /\ (futures # <<>> /\ futures[1].state = "FINISHED") =>
          futures[1].result = SelectedMove(legal_moves[1])

\* C16: on a root state with exactly one legal move, pure_monte_carlo_game_search
\* returns that move, and never clones the state, applies a move or runs a playout
C16_SingleMoveReturnedAtOnce ==
    \A legal_moves \in {determine_legal_moves(current_player, board)} :
       (Len(legal_moves) = 1 /\ worker.pc # "lifted") => SingleMoveSearch(legal_moves)

\* The search of a state with one legal move has returned a move
C16_Witness ==
    /\ futures # <<>>
    /\ futures[1].state = "FINISHED"
    /\ futures[1].result.kind = "Move"
    /\ Len(determine_legal_moves(current_player, board)) = 1

\* C17: pure_monte_carlo_game_search called with a playout count <= 0 raises
\* ValueError, whatever the number of legal moves of the root state
C17_NonPositiveCountRaises ==
    \A id \in 1 .. Len(futures) :
       (futures[id].playout_count <= 0 /\ futures[id].state = "FINISHED") =>
          futures[id].result = SearchValueError

\* The score of a result lies in the band of its outcome, in thousandths
InOutcomeBand(result, score, player) ==
    IF result.kind = "None" THEN score = 500
    ELSE IF result.winner = "None" THEN 500 < score /\ score <= 700
    ELSE IF result.winner = player THEN 800 <= score /\ score <= 1000
    ELSE 0 <= score /\ score <= 200

\* C18: for every positive total ply count the score of a loss is at most 0.2, the
\* score of an undecided playout is 0.5, the score of a draw is above 0.5 and at most
\* 0.7, and the score of a win is at least 0.8, from the root mover's perspective
C18_ScoresOrderedByOutcome ==
    worker.pc = "scored" =>
        \A i \in 1 .. Len(worker.playout_results) :
           InOutcomeBand(worker.playout_results[i], worker.playout_scores[i], current_player)

\* A loss after more than 200 plies has been scored 0.2
C18_Witness ==
    /\ worker.pc = "scored"
    /\ worker.playout_results[2].kind = "Result"
    /\ worker.playout_results[2].winner = Opponent(current_player)
    /\ worker.playout_results[2].total_ply_count > 200
    /\ worker.playout_scores[2] = 200

\* Two scored results of the same outcome, the first after fewer plies
ScoredEarlierAndLater ==
    /\ worker.pc = "scored"
    /\ worker.playout_results[1].kind = "Result"
    /\ worker.playout_results[1].total_ply_count < worker.playout_results[2].total_ply_count

\* C19, as stated: of two wins the earlier scores strictly higher, and of two losses
\* the earlier scores strictly lower, for any two positive total ply counts p < q
C19_StrictForAllPlyCounts ==
    ScoredEarlierAndLater =>
        /\ worker.playout_results[1].winner = current_player =>
              worker.playout_scores[1] > worker.playout_scores[2]
        /\ worker.playout_results[1].winner = Opponent(current_player) =>
              worker.playout_scores[1] < worker.playout_scores[2]

\* C19, amended: of two wins the earlier never scores lower, of two losses the earlier
\* never scores higher, strictly so when the earlier game took fewer than 200 plies;
\* the game duration score, which is the score of a loss, never exceeds 0.2
C19_StrictBelowCap ==
    ScoredEarlierAndLater =>
        /\ worker.playout_results[1].winner = current_player =>
              /\ worker.playout_scores[1] >= worker.playout_scores[2]
              /\ worker.playout_results[1].total_ply_count < 200 =>
                    worker.playout_scores[1] > worker.playout_scores[2]
        /\ worker.playout_results[1].winner = Opponent(current_player) =>
              /\ worker.playout_scores[1] <= worker.playout_scores[2]
              /\ worker.playout_scores[2] <= 200
              /\ worker.playout_results[1].total_ply_count < 200 =>
                    worker.playout_scores[1] < worker.playout_scores[2]

\* A win before the cap and a win after it have been scored
C19_Witness ==
    /\ ScoredEarlierAndLater
    /\ worker.playout_results[1].winner = current_player
    /\ worker.playout_results[1].total_ply_count < 200
    /\ worker.playout_results[2].total_ply_count > 200
    /\ worker.playout_scores[1] > worker.playout_scores[2]

\* C20: GameState.board returns an independent copy: changing any cell of the board
\* that was returned changes neither the state's own board nor the legal moves or the
\* result the state reports afterwards.
C20_BoardCopyIndependent ==
    [][called' = "board.__setitem__" =>
          /\ board' = board
          /\ CheckersState_legal_moves(State').value = CheckersState_legal_moves(State).value
          /\ CheckersState_result(State').value = CheckersState_result(State).value]_vars

\* A cell of the board read after an accepted move was changed, and the two boards differ
C20_Witness ==
    /\ called = "board.__setitem__"
    /\ game_started
    /\ ply_count >= 1
    /\ board_read.cells # board
    /\ Len(CheckersState_legal_moves(State).value) > 0

(***************************************************************************)
(* Construction and the opening position.                                  *)
(***************************************************************************)
ShapeRefused(row_count, column_count) ==
    \/ row_count < 3
    \/ column_count < 3
    \/ (\E n \in 0 .. row_count : row_count = 2 * n)
          /\ (\E n \in 0 .. column_count : column_count = 2 * n + 1)

\* C21: constructing a state fails exactly when row_count < 3, or column_count < 3,
\* or row_count is even and column_count is odd; every other shape is accepted and
\* yields an empty board of that shape with Light to move and ply_count 0.
C21_ShapeValidated ==
    called = "init" =>
        /\ raised = "ValueError" <=> ShapeRefused(shape[1], shape[2])
        /\ raised = "None" <=> ~ShapeRefused(shape[1], shape[2])
        /\ raised = "None" =>
              /\ DOMAIN board = (0 .. shape[2] - 1) \X (0 .. shape[1] - 1)
              /\ \A sq \in DOMAIN board : board[sq] = EMPTY
              /\ current_player = LIGHT
              /\ ply_count = 0

\* C21 witness: a shape with enough rows and columns was refused for its parity,
\* and the shape with one more column is accepted
C21_Witness ==
    /\ called = "init"
    /\ raised = "ValueError"
    /\ shape[1] >= 3
    /\ shape[2] >= 3
    /\ CheckersState_new(shape[1], shape[2] + 1).raised = "None"

\* k of the opening: the number of rows each player fills
HomeRowCount == (RowCount - 1) \div 2

EvenSquare(sq) == \E n \in 0 .. (RowCount + ColumnCount) : sq[1] + sq[2] = 2 * n

LightHome == {sq \in Squares : sq[2] \in 0 .. (HomeRowCount - 1) /\ EvenSquare(sq)}

DarkHome ==
    {sq \in Squares : sq[2] \in (RowCount - HomeRowCount) .. (RowCount - 1) /\ EvenSquare(sq)}

StandardOpening(s) ==
    /\ \A sq \in Squares :
          /\ s.board[sq] = CheckersPiece(LIGHT, MAN) <=> sq \in LightHome
          /\ s.board[sq] = CheckersPiece(DARK, MAN) <=> sq \in DarkHome
          /\ s.board[sq] = EMPTY <=> sq \notin LightHome \cup DarkHome
    /\ s.current_player = LIGHT
    /\ s.ply_count = 0
    /\ s.cached_legal_moves.is_none

\* C22: from any state, start_new_game() yields the standard opening: a Light Man on
\* exactly the even squares of rows 0..k-1, a Dark Man on exactly the even squares of
\* rows row_count-k..row_count-1 (k = (row_count - 1) div 2), every other square
\* empty, Light to move, ply_count 0 and no cached moves; calling it twice gives the
\* same state as calling it once.
C22_StandardOpening ==
    Constructed =>
        /\ StandardOpening(CheckersState_start_new_game(State))
        /\ CheckersState_start_new_game(CheckersState_start_new_game(State))
              = CheckersState_start_new_game(State)
        /\ called = "start_new_game" => StandardOpening(State)

\* C22 witness: start_new_game has returned on the 10x10 board after a move had been
\* made: each player has four rows of Men and two rows between them are empty
C22_Witness ==
    /\ called = "start_new_game"
    /\ shape = <<10, 10>>
    /\ StandardOpening(State)
    /\ HomeRowCount = 4
    /\ Cardinality(LightHome) = 20
    /\ Cardinality(DarkHome) = 20
    /\ LightHome \cap DarkHome = {}

\* the board of the standard opening
OpeningBoard(b) ==
    \A sq \in Squares :
        b[sq] = (IF sq \in LightHome THEN CheckersPiece(LIGHT, MAN)
                 ELSE IF sq \in DarkHome THEN CheckersPiece(DARK, MAN)
                 ELSE EMPTY)

\* the row of Light's Men nearest to the opponent
FrontRow == HomeRowCount - 1

\* one step diagonally forward from the front row onto the row ahead
OpeningMoves ==
    {<<origin, destination>> : origin \in {sq \in LightHome : sq[2] = FrontRow},
                               destination \in {sq \in Squares : sq[2] = FrontRow + 1}}
    \cap {m \in Squares \X Squares : m[2][1] - m[1][1] \in {-1, 1}}

\* C23: in the starting position with Light to move, legal_moves is exactly the set of
\* non-capturing one-step forward diagonal moves of Light's front-row Men onto the
\* empty row ahead, each listed once; no move is a capture and no piece behind the
\* front row can move.
C23_OpeningMoves ==
    (game_started /\ OpeningBoard(board) /\ current_player = LIGHT) =>
        /\ shape = <<10, 10>> => (FrontRow = 3 /\ Cardinality(OpeningMoves) = 9)
        /\ Range(CheckersState_legal_moves(State).value) = OpeningMoves
        /\ Len(CheckersState_legal_moves(State).value) = Cardinality(OpeningMoves)
        /\ \A move \in Range(CheckersState_legal_moves(State).value) :
              /\ Len(move) = 2
              /\ move[1][2] = FrontRow
              /\ Between(move[1], move[2]) = {}
              /\ board[move[2]] = EMPTY

\* C23 witness: the legal moves were read in the starting position of the 10x10 board:
\* nine moves, and Men behind the front row that have none
C23_Witness ==
    /\ called = "legal_moves"
    /\ shape = <<10, 10>>
    /\ OpeningBoard(board)
    /\ current_player = LIGHT
    /\ Len(cached_legal_moves.moves) = 9
    /\ \E sq \in LightHome : sq[2] < FrontRow
    /\ \E m \in OpeningMoves : \E n \in OpeningMoves : m[1] = n[1] /\ m[2] # n[2]
    /\ \E sq \in LightHome : Cardinality({m \in OpeningMoves : m[1] = sq}) = 1

(***************************************************************************)
(* Single jumps, capture chains and the effect of a move on the board.     *)
(***************************************************************************)
Occupied(b) == {sq \in Squares : b[sq] # EMPTY}

\* the lists of at most two squares, without repetition, of a set of squares
ListsOf(squares) ==
    {<<>>} \cup {<<sq>> : sq \in squares}
           \cup {<<p[1], p[2]>> : p \in {q \in squares \X squares : q[1] # q[2]}}

\* add_legal_jumps lists each jump of the rule once and nothing else
JumpsAsRuled(jumps, ruled) ==
    /\ Range(jumps) = ruled
    /\ Len(jumps) = Cardinality(ruled)

\* the jumps of a Man: over the adjacent square onto the square two steps away
ManSingleJumps(piece, origin, taken, b) ==
    {[destination |-> Along(origin, d, 2), captured_square |-> Along(origin, d, 1)] :
        d \in {e \in Diagonals : CanJump(piece, origin, e, 1, 1, taken, b)}}

\* the jumps of the Man on origin, lifted off the board, for every list of squares
\* already captured
JumpsOfManAsRuled(origin, b) ==
    \A taken \in ListsOf(Occupied(b) \ {origin}) :
        JumpsAsRuled(add_legal_jumps(b[origin], origin, taken, LiftPiece(origin, b)),
                     ManSingleJumps(b[origin], origin, Range(taken), LiftPiece(origin, b)))

\* the board holds one Man of the player and one piece of the opponent that it can jump
OneManOneVictim(player, b) ==
    /\ Cardinality(Occupied(b)) = 2
    /\ \E origin \in Squares :
          /\ b[origin] = CheckersPiece(player, MAN)
          /\ ManSingleJumps(b[origin], origin, {}, LiftPiece(origin, b)) # {}

\* the one jump of the Man of OneManOneVictim, as a move
TheJumpOf(player, b) ==
    CHOOSE move \in Squares \X Squares :
        /\ b[move[1]] = CheckersPiece(player, MAN)
        /\ \E j \in ManSingleJumps(b[move[1]], move[1], {}, LiftPiece(move[1], b)) :
              j.destination = move[2]

\* origin and the square jumped are empty, the piece stands on the landing square and
\* no other square has changed
JumpApplied(move, before, after) ==
    /\ after[move[1]] = EMPTY
    /\ \A sq \in Between(move[1], move[2]) : after[sq] = EMPTY
    /\ after[move[2]].owner = before[move[1]].owner
    /\ \A sq \in Squares \ ({move[1], move[2]} \cup Between(move[1], move[2])) :
          after[sq] = before[sq]

\* C24: the single jumps of a Man are exactly, for each of the four diagonal directions
\* (backward included), the square two steps away when the adjacent square holds an
\* opponent piece not already captured and the square beyond is on the board and
\* empty; with one Man able to jump one opponent piece the legal moves are exactly that
\* one move of length 2, and applying it empties the origin and the captured square
\* and puts the piece on the landing square.
C24_ManSingleJumps ==
    /\ [](\A origin \in Squares : board[origin].type = MAN => JumpsOfManAsRuled(origin, board))
    /\ []((called = "determine_legal_moves" /\ OneManOneVictim(current_player, board)) =>
             moves_returned = <<TheJumpOf(current_player, board)>>)
    /\ [][(called' = "apply" /\ OneManOneVictim(current_player, board)) =>
             /\ last_move' = TheJumpOf(current_player, board)
             /\ JumpApplied(last_move', board, board')]_vars

\* C24 witness: a Light Man has jumped backward over the only other piece
C24_Witness ==
    /\ called = "apply"
    /\ current_player = LIGHT
    /\ Len(last_move) = 2
    /\ Between(last_move[1], last_move[2]) # {}
    /\ last_move[2][2] < last_move[1][2]
    /\ Occupied(board) = {last_move[2]}
    /\ board[last_move[2]] = CheckersPiece(LIGHT, MAN)

\* the state after a read has the board, the player and the ply count of the state read
SamePosition(after) ==
    /\ after.board = board
    /\ after.current_player = current_player
    /\ after.ply_count = ply_count

\* C25: determine_legal_moves returns with the board cell for cell as it was at the
\* call: every piece lifted during the capture search is back on its square, so
\* reading legal_moves or result never changes the position.
C25_BoardRestored ==
    /\ [][called' = "determine_legal_moves" => \A sq \in Squares : board'[sq] = board[sq]]_vars
    /\ [](/\ SamePosition(CheckersState_legal_moves(State).state)
          /\ SamePosition(CheckersState_result(State).state))

\* C25 witness: the legal moves were determined for a player with several pieces, one
\* of which captures more than once
C25_Witness ==
    /\ called = "determine_legal_moves"
    /\ moves_returned # <<>>
    /\ Len(moves_returned[1]) >= 3
    /\ Cardinality(OwnSquares(current_player, board)) >= 2

\* the squares strictly between two squares: those of their common diagonal that lie
\* nearer to each of the two than the two lie to each other
Inside(from, to) ==
    {<<from[1] + i * sign(to[1] - from[1]), from[2] + i * sign(to[2] - from[2])>> :
        i \in 1 .. (IF Abs(to[1] - from[1]) = Abs(to[2] - from[2])
                    THEN Abs(to[1] - from[1]) - 1 ELSE 0)}

\* the squares strictly between consecutive visited squares of a move
Jumped(move) == UNION {Inside(move[i], move[i + 1]) : i \in 1 .. (Len(move) - 1)}

\* the number of jumps of a legal move: none when its first step passes over no piece
JumpCount(move, b) ==
    IF \E sq \in Inside(move[1], move[2]) : b[sq] # EMPTY THEN Len(move) - 1 ELSE 0

\* the squares of the opponent of player that the move has emptied
Removed(player, before, after) ==
    {sq \in OwnSquares(Opponent(player), before) : after[sq] = EMPTY}

MoveApplied(move, player, before, after) ==
    /\ Cardinality(Removed(player, before, after)) = JumpCount(move, before)
    /\ Removed(player, before, after) \subseteq Jumped(move)
    /\ \A i \in 1 .. (Len(move) - 1) :
          JumpCount(move, before) > 0 =>
              Cardinality(Removed(player, before, after) \cap Inside(move[i], move[i + 1])) = 1
    /\ Cardinality(OwnSquares(Opponent(player), after))
          = Cardinality(OwnSquares(Opponent(player), before)) - JumpCount(move, before)
    /\ Cardinality(OwnSquares(player, after)) = Cardinality(OwnSquares(player, before))
    /\ after[Last(move)].owner = player
    /\ move[1] # Last(move) => after[move[1]] = EMPTY
    /\ \A sq \in Squares \ (Range(move) \cup Jumped(move)) : after[sq] = before[sq]

\* C26: applying a legal move made of k jumps removes exactly k pieces, all of them the
\* opponent's and each strictly between two consecutive visited squares; the mover's
\* own piece count is unchanged (k = 0 for a non-capturing move), the moving piece
\* ends on the destination square, and every square off the move's path is unchanged.
C26_ApplyRemovesJumpedPieces ==
    [][called' = "apply" => MoveApplied(last_move', current_player, board, board')]_vars

\* C26 witness: a move of two jumps was applied and a piece off its path is still there
C26_Witness ==
    /\ called = "apply"
    /\ Len(last_move) = 3
    /\ Occupied(board) \ (Range(last_move) \cup Jumped(last_move)) # {}
    /\ \A sq \in Jumped(last_move) : board[sq] = EMPTY

\* the pieces that the i-th jump of the move passes over, the moving piece being off
\* the board
JumpedPieces(move, i, b) ==
    {sq \in Inside(move[i], move[i + 1]) : sq # move[1] /\ b[sq] # EMPTY}

\* every jump passes over exactly one piece, a piece of the opponent that no other jump
\* of the move passes over, and lands on a square that is empty once the moving piece
\* is off the board
CapturesOnce(move, player, b) ==
    /\ \A i \in 1 .. (Len(move) - 1) :
          /\ Cardinality(JumpedPieces(move, i, b)) = 1
          /\ \A sq \in JumpedPieces(move, i, b) : b[sq].owner = Opponent(player)
          /\ move[i + 1] = move[1] \/ b[move[i + 1]] = EMPTY
    /\ \A i \in 1 .. (Len(move) - 1) : \A j \in 1 .. (Len(move) - 1) :
          i # j => JumpedPieces(move, i, b) \cap JumpedPieces(move, j, b) = {}

\* C27: in every capturing move returned by determine_legal_moves the squares captured
\* by its jumps are pairwise distinct and each holds an opponent piece; a piece
\* captured earlier in the chain stays on the board during the search and is never
\* captured again, never jumped over and never landed on.
C27_NoPieceCapturedTwice ==
    called = "determine_legal_moves" =>
        \A n \in 1 .. Len(moves_returned) :
            JumpCount(moves_returned[n], board) > 0 =>
                CapturesOnce(moves_returned[n], current_player, board)

\* a Man at the end of the move could jump back over the piece it captured last, if
\* that piece could be captured again
CouldRecapture(move, b) ==
    /\ Len(move) >= 3
    /\ b[move[1]].type = MAN
    /\ \E j \in ManSingleJumps(b[move[1]], Last(move), {}, LiftPiece(move[1], b)) :
          j.captured_square \in JumpedPieces(move, Len(move) - 1, b)

\* C27 witness: a chain of two captures was returned that ends where only the rule
\* keeps the piece from capturing the same piece again
C27_Witness ==
    /\ called = "determine_legal_moves"
    /\ \E n \in 1 .. Len(moves_returned) : CouldRecapture(moves_returned[n], board)

(***************************************************************************)
(* Moves without capture, and the jumps of a King.                         *)
(***************************************************************************)
\* the row a Man of the player steps to from row y
RowAhead(player, y) == IF player = LIGHT THEN y + 1 ELSE y - 1

OnCommonDiagonal(from, to) ==
    /\ from # to
    /\ Abs(to[1] - from[1]) = Abs(to[2] - from[2])

\* a Man steps to a forward diagonal neighbour that is empty
ManMayStep(player, from, to, b) ==
    /\ to[2] = RowAhead(player, from[2])
    /\ Abs(to[1] - from[1]) = 1
    /\ b[to] = EMPTY

\* a King slides to an empty square of a diagonal over empty squares only
KingMaySlide(from, to, b) ==
    /\ OnCommonDiagonal(from, to)
    /\ b[to] = EMPTY
    /\ \A sq \in Inside(from, to) : b[sq] = EMPTY

QuietMoves(player, b) ==
    {m \in OwnSquares(player, b) \X Squares :
        IF b[m[1]].type = MAN THEN ManMayStep(player, m[1], m[2], b)
        ELSE KingMaySlide(m[1], m[2], b)}

\* C28: when the player has no capture, determine_legal_moves returns exactly: for each
\* of the player's Men, each of its two forward diagonal neighbours that is on the
\* board and empty; for each of the player's Kings, every square reachable along a
\* diagonal by passing only over empty squares - the first occupied square in a
\* direction and everything beyond it is never a destination.
C28_QuietMoves ==
    (called = "determine_legal_moves" /\ GlobalMostCaptures(current_player, board) = 0) =>
        /\ Range(moves_returned) = QuietMoves(current_player, board)
        /\ Len(moves_returned) = Cardinality(QuietMoves(current_player, board))

\* the King on the square is blocked in one direction by a piece with an empty square
\* behind it, and slides two squares or more in another
KingPartlyBlocked(king, moves, b) ==
    /\ b[king].type = KING
    /\ \E d \in Diagonals :
          /\ InBoard(Along(king, d, 2))
          /\ b[Along(king, d, 1)] # EMPTY
          /\ b[Along(king, d, 2)] = EMPTY
    /\ \E n \in 1 .. Len(moves) : moves[n][1] = king /\ Inside(moves[n][1], moves[n][2]) # {}

\* C28 witness: no capture is possible; a King of the player is blocked in one direction
\* and slides in another, and a Man of the player has a step
C28_Witness ==
    /\ called = "determine_legal_moves"
    /\ GlobalMostCaptures(current_player, board) = 0
    /\ \E king \in OwnSquares(current_player, board) :
          KingPartlyBlocked(king, moves_returned, board)
    /\ \E n \in 1 .. Len(moves_returned) : board[moves_returned[n][1]].type = MAN

\* the distances along a diagonal of the board
DiagonalReach == 1 .. (Max(RowCount, ColumnCount) - 1)

\* the jumps of a King: over the first occupied square of a direction, a piece of the
\* opponent not yet captured, onto any square behind it that is reached over empty
\* squares
KingSingleJumps(piece, origin, taken, b) ==
    {[destination |-> Along(origin, t[1], t[2] + t[3]),
      captured_square |-> Along(origin, t[1], t[2])] :
        t \in {u \in Diagonals \X DiagonalReach \X DiagonalReach :
                  CanJump(piece, origin, u[1], u[2], u[3], taken, b)}}

\* the jumps of the King on origin, lifted off the board, for every list of squares
\* already captured
JumpsOfKingAsRuled(origin, b) ==
    \A taken \in ListsOf(Occupied(b) \ {origin}) :
        JumpsAsRuled(add_legal_jumps(b[origin], origin, taken, LiftPiece(origin, b)),
                     KingSingleJumps(b[origin], origin, Range(taken), LiftPiece(origin, b)))

\* C29: the single jumps of a King are exactly: for each diagonal direction whose first
\* occupied square holds an opponent piece not already captured, one jump per empty
\* square beyond that piece, up to the next occupied square or the board edge; a
\* direction whose first occupied square holds an own piece or a piece already
\* captured, or that has no landing square, yields no jump.
C29_KingSingleJumps ==
    called = "determine_legal_moves" =>
        \A origin \in Squares : board[origin].type = KING => JumpsOfKingAsRuled(origin, board)

\* the King on origin reaches a piece of the opponent from a distance and has two
\* landing squares behind it, the second one next to a third piece
KingJumpsFromAfar(origin, b) ==
    \E d \in Diagonals :
        /\ InBoard(Along(origin, d, 4))
        /\ b[Along(origin, d, 1)] = EMPTY
        /\ b[Along(origin, d, 2)].owner = Opponent(b[origin].owner)
        /\ b[Along(origin, d, 3)] = EMPTY
        /\ b[Along(origin, d, 4)] # EMPTY

\* the King on origin has an own piece as the first occupied square of a direction,
\* with an empty square behind it
KingBlockedByOwnPiece(origin, b) ==
    \E d \in Diagonals :
        /\ InBoard(Along(origin, d, 3))
        /\ b[Along(origin, d, 1)] = EMPTY
        /\ b[Along(origin, d, 2)].owner = b[origin].owner
        /\ b[Along(origin, d, 3)] = EMPTY

\* C29 witness: the legal moves were determined for a King that reaches a piece from a
\* distance and lands on the one empty square before the next piece, on a board where
\* the other player's King has an own piece as the first piece of a direction
C29_Witness ==
    /\ called = "determine_legal_moves"
    /\ \E other \in OwnSquares(Opponent(current_player), board) :
          board[other].type = KING /\ KingBlockedByOwnPiece(other, board)
    /\ \E origin \in OwnSquares(current_player, board) :
          /\ board[origin].type = KING
          /\ KingJumpsFromAfar(origin, board)
          /\ Len(moves_returned) = 1
          /\ moves_returned[1][1] = origin
          /\ Cardinality(Inside(origin, moves_returned[1][2])) = 2

(***************************************************************************)
(* Capture chains that come back to, or pass over, a square of their own.  *)
(***************************************************************************)
\* the pieces the move has passed over before its i-th visited square
CapturedBefore(move, i, b) == UNION {JumpedPieces(move, j, b) : j \in 1 .. (i - 1)}

RuledJumps(piece, from, taken, lifted) ==
    IF piece.type = MAN THEN ManSingleJumps(piece, from, taken, lifted)
    ELSE KingSingleJumps(piece, from, taken, lifted)

\* every step of the move is a jump of the rule on the board without the moving piece,
\* the pieces passed over before being captured already, and no jump is left at its end
ChainAsRuled(move, piece, lifted, b) ==
    /\ \A i \in 1 .. (Len(move) - 1) :
          \E jump \in RuledJumps(piece, move[i], CapturedBefore(move, i, b), lifted) :
              jump.destination = move[i + 1]
    /\ RuledJumps(piece, Last(move), CapturedBefore(move, Len(move), b), lifted) = {}

\* the moving piece stands on the destination, every piece passed over is gone, and
\* the origin is empty unless the move ends there
ChainApplied(move, before, after) ==
    /\ after[Last(move)].owner = before[move[1]].owner
    /\ after[Last(move)].type = KING <=>
          (before[move[1]].type = KING \/ Last(move)[2] = KingsRow(before[move[1]].owner))
    /\ \A i \in 1 .. (Len(move) - 1) : \A sq \in JumpedPieces(move, i, before) :
          after[sq] = EMPTY
    /\ Last(move) # move[1] => after[move[1]] = EMPTY

\* C30: a capture chain may return to or cross the moving piece's own starting square:
\* such chains are generated as if the origin were empty, and applying a legal move
\* whose destination equals its origin, or whose path crosses origin or destination,
\* leaves the moving piece on the destination square with every captured piece removed.
C30_ChainsOverOwnSquares ==
    /\ [](called = "determine_legal_moves" =>
             \A n \in 1 .. Len(moves_returned) :
                 JumpCount(moves_returned[n], board) > 0 =>
                     ChainAsRuled(moves_returned[n], board[moves_returned[n][1]],
                                  LiftPiece(moves_returned[n][1], board), board))
    /\ [][called' = "apply" => ChainApplied(last_move', board, board')]_vars

\* the move ends on its origin
ReturnsToOrigin(move) == Len(move) >= 3 /\ Last(move) = move[1]

\* a jump of the move passes over the origin
CrossesOrigin(move) ==
    \E i \in 2 .. (Len(move) - 1) : move[1] \in Inside(move[i], move[i + 1])

\* a jump of the move passes over the square the move ends on
CrossesDestination(move) ==
    \E i \in 1 .. (Len(move) - 2) : Last(move) \in Inside(move[i], move[i + 1])

\* C30 witness: a move was applied whose first jump passed over the square it ends on,
\* and the piece stands there
C30_Witness ==
    /\ called = "apply"
    /\ Len(last_move) >= 3
    /\ CrossesDestination(last_move)
    /\ board[Last(last_move)].owner = current_player

(***************************************************************************)
(* The playouts of the search.                                             *)
(***************************************************************************)
\* The worker is in the loop of run_playout: at its top, or past the test of the event
InPlayoutLoop == worker.pc \in {"playout", "playout_step"}

\* The worker is inside run_playout, or has just returned from it
InPlayout == InPlayoutLoop \/ worker.pc = "after_playout"

\* One iteration of the loop of run_playout that did not return: a legal move of the
\* playout's state was applied to it, once
PlayoutApplied(before, after) ==
    /\ after.ply_count = before.ply_count + 1
    /\ after.current_player # before.current_player
    /\ \E move \in Range(determine_legal_moves(before.current_player, before.board)) :
          after.board = apply(move, before.board)

\* C31: every run_playout terminates: an iteration of its loop that does not return
\* applies exactly one legal move to the playout's own state, the ply count of that
\* state never exceeds root.ply_count + MAX_RECURSION_DEPTH, a playout that reaches
\* that ceiling without a result returns None, and a move is never drawn from an
\* empty list of legal moves
C31_PlayoutsTerminate ==
    /\ InPlayoutLoop ~> ~InPlayoutLoop
    /\ [](InPlayout =>
             /\ worker.max_ply_count = ply_count + MAX_RECURSION_DEPTH
             /\ worker.playout_state.ply_count <= ply_count + MAX_RECURSION_DEPTH)
    /\ [](InPlayoutLoop =>
             \A read \in {CheckersState_result(worker.playout_state)} :
                 read.value = NoResult => read.state.cached_legal_moves.moves # <<>>)
    /\ [][(InPlayoutLoop /\ worker' # worker) =>
             IF worker.pc = "playout_step" /\ worker'.pc = "playout"
             THEN PlayoutApplied(worker.playout_state, worker'.playout_state)
             ELSE worker'.playout_state = worker.playout_state]_vars
    /\ [][(/\ worker.pc = "playout_step"
           /\ worker' # worker
           /\ worker.playout_state.ply_count >= worker.max_ply_count
           /\ CheckersState_result(worker.playout_state).value = NoResult) =>
             /\ worker'.pc = "after_playout"
             /\ worker'.playout_results = Append(worker.playout_results, NoResult)]_vars

\* C31 witness: with the cancelled event clear, a playout has returned None at the
\* ceiling, on a position where the game goes on
C31_Witness ==
    /\ worker.pc = "after_playout"
    /\ ~cancelled_event
    /\ Last(worker.playout_results) = NoResult
    /\ worker.playout_state.ply_count = ply_count + MAX_RECURSION_DEPTH
    /\ CheckersState_result(worker.playout_state).value = NoResult

\* C32: once the cancelled event is set while a search runs, the worker applies at
\* most one further move to its cloned states before pure_monte_carlo_game_search
\* returns, and every loop tests the event: the playout loop at the top of each
\* iteration, the loop over playouts and the loop over candidate moves after each
\* iteration, each returning None when it finds the event set
C32_AtMostOneMoveAfterCancel ==
    /\ [](worker.applied_when_set <= 1)
    /\ [][(cancelled_event /\ worker' # worker) =>
             /\ worker.pc = "playout" =>
                   /\ worker'.pc = "after_playout"
                   /\ Last(worker'.playout_results) = NoResult
                   /\ worker'.playout_state = worker.playout_state
             /\ worker.pc = "after_playout" =>
                   /\ worker'.pc = "after_score"
                   /\ worker'.score = NoScore
             /\ worker.pc = "after_score" =>
                   /\ worker' = WorkerIdle
                   /\ futures'[worker.search].state = "FINISHED"
                   /\ futures'[worker.search].result = NoMove]_vars

\* C32 witness: the event was set between the test at the top of a playout iteration
\* and the move of that iteration, and the playout is back at the top of its loop
C32_Witness ==
    /\ worker.pc = "playout"
    /\ cancelled_event
    /\ futures[worker.search].signalled = "RUNNING"
    /\ worker.applied_when_set = 1
    /\ worker.playout_state.ply_count = worker.playout_start_state.ply_count + 1

(***************************************************************************)
(* The move the search returns.                                            *)
(***************************************************************************)
\* The search id returns at this step
SearchReturns(id) == futures[id].state # "FINISHED" /\ futures'[id].state = "FINISHED"

\* total is within the tolerance of the best total: the means total / (1000 * n) and
\* best / (1000 * n) differ by at most 1e-5 * max(1, the larger mean)
WithinTolerance(total, best, n) ==
    /\ total <= best
    /\ (best - total) * 100000 <= (IF best > 1000 * n THEN best ELSE 1000 * n)

\* move is a legal move whose total is within the tolerance of the largest total
BestScored(move, legal_moves, scores, n) ==
    \E j \in 1 .. Len(legal_moves) :
       /\ legal_moves[j] = move
       /\ \E best \in {scores[k].total : k \in 1 .. Len(scores)} :
             /\ \A k \in 1 .. Len(scores) : scores[k].total <= best
             /\ WithinTolerance(scores[j].total, best, n)

\* What the search of a root state with these legal moves returns
ReturnedAsRuled(result, legal_moves) ==
    /\ result = NoMove <=> legal_moves = <<>>
    /\ legal_moves # <<>> =>
          /\ result.kind = "Move"
          /\ result.move \in Range(legal_moves)
          /\ Len(legal_moves) >= 2 =>
                /\ Len(worker.scores) + 1 = Len(legal_moves)
                /\ \A k \in 1 .. Len(worker.scores) : ~worker.scores[k].is_none
                /\ ~worker.score.is_none
                /\ BestScored(result.move, legal_moves,
                              Append(worker.scores, worker.score), worker.playout_count)

\* C33: when the event is never set and the playout count is at least 1,
\* pure_monte_carlo_game_search returns None exactly when the root state has no legal
\* move; otherwise it returns one of the root state's legal moves, whose mean playout
\* score is within the 1e-5 tolerance of the largest mean score of all legal moves
C33_ReturnsBestScoredMove ==
    [][\A id \in 1 .. Len(futures) :
          (/\ SearchReturns(id)
           /\ futures'[id].signalled = "None"
           /\ futures[id].playout_count >= 1) =>
             ReturnedAsRuled(futures'[id].result,
                             determine_legal_moves(current_player, board))]_vars

\* C33 witness: a search that was never cancelled has returned a move of a root state
\* with several legal moves, one of which would have been a different answer
C33_Witness ==
    /\ futures # <<>>
    /\ futures[1].state = "FINISHED"
    /\ futures[1].signalled = "None"
    /\ futures[1].playout_count >= 1
    /\ futures[1].result.kind = "Move"
    /\ Len(determine_legal_moves(current_player, board)) >= 2

\* Two states hold the same position
SamePositionAs(s, t) ==
    /\ s.board = t.board
    /\ s.current_player = t.current_player
    /\ s.ply_count = t.ply_count

\* s is the root position with move applied
RootWithMove(s, move) ==
    /\ s.board = apply(move, board)
    /\ s.current_player # current_player
    /\ s.ply_count = ply_count + 1

\* C34: pure_monte_carlo_game_search and determine_score_for_move return with the
\* root state's board, current player and ply count as they were at the call, and
\* run_playout never changes the state it is given: every playout of a candidate move
\* starts from the same position, the root position with that move applied
C34_PlayoutsStartFromMoveApplied ==
    /\ [](Scoring => SamePositionAs(State, started_on))
    /\ [](InPlayout =>
             RootWithMove(worker.playout_start_state, worker.legal_moves[worker.move_index]))
    /\ [][(worker'.pc = "playout" /\ worker.pc \in {"score", "after_playout"}) =>
             /\ SamePositionAs(worker'.playout_state, worker'.playout_start_state)
             /\ RootWithMove(worker'.playout_state,
                             worker'.legal_moves[worker'.move_index])]_vars
    /\ [][\A id \in 1 .. Len(futures) :
             SearchReturns(id) =>
                /\ board' = started_on.board
                /\ current_player' = started_on.current_player
                /\ ply_count' = started_on.ply_count]_vars

\* C34 witness: the second playout of a candidate move is about to start, after the
\* first one applied a move to its own state and returned None at the ceiling
C34_Witness ==
    /\ worker.pc = "playout"
    /\ ~cancelled_event
    /\ worker.playout_count = 2
    /\ worker.playout_results = <<NoResult>>
    /\ worker.playout_state.ply_count = ply_count + 1
    /\ worker.playout_state = worker.playout_start_state

\* The worker is at line 47 after the last candidate move, with the event clear: the
\* search goes on to the selection of lines 56-58
AtSelection ==
    /\ worker.pc = "after_score"
    /\ worker.move_index = Len(worker.legal_moves)
    /\ ~cancelled_event

\* C35: whenever the search reaches the selection of the best score, every candidate
\* move has a score: a None returned by a cancelled determine_score_for_move is
\* always followed by the return at line 47, in every interleaving of the worker
\* with reset() and start(), and no search ends with the TypeError of max() over None
C35_NoneScoreNeverSelected ==
    /\ (worker.pc = "after_score" /\ worker.score.is_none) => cancelled_event
    /\ worker.pc \in {"score", "playout", "playout_step", "after_playout", "after_score"} =>
          \A k \in 1 .. Len(worker.scores) : ~worker.scores[k].is_none
    /\ AtSelection => ~worker.score.is_none /\ Len(worker.scores) + 1 = Len(worker.legal_moves)
    /\ \A id \in 1 .. Len(futures) : futures[id].result # TypeError

\* C35 witness: the first search was cancelled by start() while it ran and returned
\* None, and the second search is at the selection with a score for every move
C35_Witness ==
    /\ Len(futures) = 2
    /\ futures[1].signalled = "RUNNING"
    /\ futures[1].state = "FINISHED"
    /\ futures[1].result = NoMove
    /\ worker.search = 2
    /\ AtSelection
    /\ Len(worker.legal_moves) >= 2

(***************************************************************************)
(* The positions of a game.                                                *)
(***************************************************************************)
\* The Men that stand on the king's row of their owner
MenOnKingsRow(b) ==
    {sq \in Squares : b[sq].type = MAN /\ sq[2] = KingsRow(b[sq].owner)}

\* C36: in every state reached from start_new_game by legal moves no Man stands on
\* its owner's king's row: no Light Man on the last row and no Dark Man on row 0
C36_NoManOnKingsRow ==
    game_started =>
        /\ MenOnKingsRow(board) = {}
        /\ \A sq \in Squares :
              /\ board[sq] = CheckersPiece(LIGHT, MAN) => sq[2] < RowCount - 1
              /\ board[sq] = CheckersPiece(DARK, MAN) => sq[2] > 0

\* C36 witness: in a game a Man has just moved onto its king's row and stands there
\* as a King, while the opponent still has a Man
C36_Witness ==
    /\ game_started
    /\ called = "apply"
    /\ raised = "None"
    /\ Len(last_move) = 2
    /\ Last(last_move)[2] = KingsRow(board[Last(last_move)].owner)
    /\ last_move[1][2] # Last(last_move)[2]
    /\ board[Last(last_move)].type = KING
    /\ \E sq \in Squares : board[sq].type = MAN /\ board[sq].owner = current_player

(***************************************************************************)
(* The shape of a legal move.                                              *)
(***************************************************************************)
\* The loop of remove_pieces_between(from, to) ends after k iterations for some k, and
\* every square it writes before that is on the board
LoopEnds(from, to) ==
    \E k \in Reach :
       /\ Along(from, Index2D_sign(Index2D_sub(to, from)), k) = to
       /\ \A j \in 1 .. (k - 1) :
             InBoard(Along(from, Index2D_sign(Index2D_sub(to, from)), j))

\* A move of at least two squares whose consecutive squares are distinct, on the board
\* and on a common diagonal
WellFormedMove(move) ==
    /\ Len(move) >= 2
    /\ \A i \in 1 .. (Len(move) - 1) :
          /\ move[i] # move[i + 1]
          /\ InBoard(move[i])
          /\ InBoard(move[i + 1])
          /\ OnCommonDiagonal(move[i], move[i + 1])
          /\ LoopEnds(move[i], move[i + 1])

\* C37: every move determine_legal_moves returns visits at least two squares, and
\* every two consecutive squares of it are distinct, on the board and on a common
\* diagonal, so that for every legal move that is applied each loop of
\* remove_pieces_between ends and writes squares of the board only
C37_MovesWellFormed ==
    /\ [](called = "determine_legal_moves" =>
             \A n \in 1 .. Len(moves_returned) : WellFormedMove(moves_returned[n]))
    /\ [][called' = "apply" => WellFormedMove(last_move')]_vars

\* C37 witness: a move of several jumps was applied, one of them over three squares or
\* more, so that a loop of remove_pieces_between ran more than once
C37_Witness ==
    /\ called = "apply"
    /\ Len(last_move) >= 3
    /\ \E i \in 1 .. (Len(last_move) - 1) :
          Abs(last_move[i + 1][1] - last_move[i][1]) >= 3

(***************************************************************************)
(* The selection of a move by the user.                                    *)
(***************************************************************************)
\* a equals b or is the start of b
IsPrefix(a, b) == Len(a) <= Len(b) /\ \A n \in 1 .. Len(a) : a[n] = b[n]

\* No two moves of the list are equal and none is the start of another
PrefixFree(moves) ==
    \A i \in 1 .. Len(moves) : \A j \in 1 .. Len(moves) :
       i # j => ~IsPrefix(moves[i], moves[j])

\* The moves of the selector that start with the squares
Matches(selector, squares) ==
    {i \in 1 .. Len(selector.selectable_moves) :
        IsPrefix(squares, selector.selectable_moves[i])}

\* C38: legal_moves never holds two equal moves nor a move that is the start of
\* another, so that after every sequence of start(), select() and reset() of a
\* UserCheckersMoveSelector neither assertion has failed: at least one legal move
\* starts with the squares selected so far, and a selection that is a complete move
\* matches that move only
C38_SelectionAssertionsHold ==
    \A selector \in {user[current_player]} :
       /\ selector.raised = "None"
       /\ called = "start" => selector.selectable_moves = cached_legal_moves.moves
       /\ PrefixFree(selector.selectable_moves)
       /\ selector.selectable_moves # <<>> =>
             Matches(selector, selector.selected_squares) # {}
       /\ selector.selected_move.kind = "Move" =>
             /\ Cardinality(Matches(selector, selector.selected_move.move)) = 1
             /\ selector.selected_move.move \in Range(selector.selectable_moves)
             /\ selector.selectable_squares = {}
       /\ (selector.selected_move = NoMove /\ selector.selectable_moves # <<>>) =>
             selector.selectable_squares =
                {selector.selectable_moves[i][Len(selector.selected_squares) + 1] :
                    i \in Matches(selector, selector.selected_squares)}

\* C38 witness: the user completed a move of two jumps or more, while another legal
\* move begins with the same two squares
C38_Witness ==
    \E selector \in {user[current_player]} :
       /\ called = "select"
       /\ selector.selected_move.kind = "Move"
       /\ Len(selector.selected_move.move) >= 3
       /\ Cardinality(Matches(selector, SubSeq(selector.selected_move.move, 1, 2))) >= 2

\* The selector of a player is as reset() leaves it: nothing selectable and nothing
\* selected, no move chosen at random, no future and the cancelled event clear
SelectorIsReset(player) ==
    /\ controller.types[player] = USER =>
          user[player] = UserCheckersMoveSelector_reset(user[player])
    /\ controller.types[player] = RANDOM => controller.random[player] = NoMove
    /\ controller.types[player] = AI =>
          future_selected_move = 0 /\ ~cancelled_event

\* A selection has been started and its move has not been applied yet
SelectionOpen == controller.current_move_selector # "None" \/ controller.pc = "apply"

\* C39: in the controller's loop the move passed to apply was selected for the
\* position the state is in at that moment: it is one of the state's legal moves
\* and apply never raises IllegalMove; when the move is applied the selector has
\* been reset and forgotten; and one move is applied per started selection, the
\* selections started being the moves applied plus the one that is still open.
C39_ControllerAppliesSelectedMoves ==
    /\ controller.pc = "apply" =>
          /\ controller.selected_move.kind = "Move"
          /\ controller.position = <<board, current_player>>
          /\ controller.selected_move.move
                \in Range(CheckersState_legal_moves(State).value)
          /\ CheckersState_apply(State, controller.selected_move.move).raised = "None"
          /\ controller.current_move_selector = "None"
          /\ SelectorIsReset(current_player)
    /\ raised = "None"
    /\ controller.current_move_selector # "None" =>
          /\ controller.current_move_selector = current_player
          /\ controller.position = <<board, current_player>> \/ worker.pc = "lifted"
    /\ controller.started = controller.applied + (IF SelectionOpen THEN 1 ELSE 0)

\* A move selected by the AI selector is about to be applied, after moves of the
\* other player's selector were applied
C39_Witness ==
    /\ controller.pc = "apply"
    /\ controller.types[current_player] = AI
    /\ controller.applied >= 2
    /\ Len(controller.selected_move.move) >= 2
    /\ controller.selected_move.move \in Range(CheckersState_legal_moves(State).value)

====
